---- MODULE Spec2Model ----
(***************************************************************************)
(* Model of Kokoro-TTS-Local: the volume enhancer                         *)
(* (src/volume_enhancer.py: enhance_volume_data, normalize_volume,         *)
(* enhance_volume_file, enhance_tts_audio on the shared instance), the     *)
(* request handling of the API server (src/tts_api.py), the model loading  *)
(* (src/models.py: download_voice_files, build_model, the patching of      *)
(* json.load), the speed-dial presets (src/speed_dial.py) and the write    *)
(* with retries of the demo (src/tts_demo.py).                             *)
(*                                                                         *)
(* Specifications: Spec (calls of the data-level operations), FileSpec     *)
(* (the file adapter), ConcSpec (two callers interleaved on the shared     *)
(* instance), ApiSpec (the server handling one request at a time), DlSpec  *)
(* (download_voice_files step by step), SdSpec (save_preset and            *)
(* delete_preset on the presets file), PatchSpec (direct calls of the      *)
(* patch functions), BuildSpec (two threads in build_model), RetrySpec     *)
(* (save_audio_with_retry, with the fairness of a running thread), GmSpec  *)
(* (two requests and the preload awaiting get_model).                      *)
(*                                                                         *)
(* Numbers.  An integer sample is itself.  A floating sample x is held on  *)
(* a fixed-point grid as the integer round(x * FScale); a floating value   *)
(* that is not on the grid is one of the special kinds below.  Every       *)
(* element of a buffer is a record [k, v]:                                 *)
(*   k = "fin"  the value v (integer dtype: v; float dtype: v / FScale)    *)
(*   k = "pos"  a value above every magnitude the model holds, or +inf     *)
(*   k = "neg"  a value below every magnitude the model holds, or -inf     *)
(*   k = "nan"  IEEE not-a-number                                          *)
(* All arithmetic stays inside 32-bit integers.                            *)
(***************************************************************************)
EXTENDS Integers, Sequences, FiniteSets, TLC

\* ---------------------------------------------------------------- bounds
MaxLen == 2          \* longest input buffer
FScale == 10000      \* resolution of the fixed-point grid for floats

\* ------------------------------------------------------- numeric ranges
Int8Min == -128
Int8Max == 127
Int16Min == -32768
Int16Max == 32767
Int32Max == 2147483647
Int32Min == -Int32Max - 1
UInt8Max == 255
BigCap == Int32Max   \* largest magnitude a "fin" value holds

Fin(v) == [k |-> "fin", v |-> v]
PosBig == [k |-> "pos", v |-> 0]
NegBig == [k |-> "neg", v |-> 0]
NaN == [k |-> "nan", v |-> 0]

IntDTypes == {"int16", "int32", "int8", "uint8"}
FloatDTypes == {"float32", "float64"}
DTypes == IntDTypes \cup FloatDTypes
SupportedDTypes == {"float32", "int16", "int32", "int8"}

\* np.issubdtype(dtype, np.integer)
IsInteger(dtype) == dtype \in IntDTypes

\* np.iinfo(dtype).min / .max
IInfoMin(dtype) ==
  CASE dtype = "int8" -> Int8Min
    [] dtype = "int16" -> Int16Min
    [] dtype = "int32" -> Int32Min
    [] dtype = "uint8" -> 0
IInfoMax(dtype) ==
  CASE dtype = "int8" -> Int8Max
    [] dtype = "int16" -> Int16Max
    [] dtype = "int32" -> Int32Max
    [] dtype = "uint8" -> UInt8Max

\* the representable range of a sample representation (spec, data model):
\* [-1.0, 1.0] for floats, the exact integer range otherwise
RangeLo(dtype) == IF IsInteger(dtype) THEN IInfoMin(dtype) ELSE -FScale
RangeHi(dtype) == IF IsInteger(dtype) THEN IInfoMax(dtype) ELSE FScale

\* ------------------------------------------------------------ the gain
\* A gain or target level in dB: a finite number of dB, or a non-finite float.
FiniteDbs == {-8000, -100, -40, -20, -6, -3, 0, 1, 3, 6, 20, 40, 7000}
FinDb(d) == [k |-> "fin", db |-> d]
Gains == {FinDb(d) : d \in FiniteDbs} \cup
         {[k |-> "inf", db |-> 0], [k |-> "ninf", db |-> 0], [k |-> "nan", db |-> 0]}

\* 10 ** (db / 20.0) as the ratio <<num, den>>, for the dB values of the model:
\* exact for the multiples of 20, rounded to four decimals otherwise;
\* 10 ** -400.0 underflows to 0.0
Pow10Table(db) ==
  CASE db = -8000 -> <<0, 1>>
    [] db = -100 -> <<1, 100000>>
    [] db = -40 -> <<1, 100>>
    [] db = -20 -> <<1, 10>>
    [] db = -6 -> <<5012, 10000>>
    [] db = -3 -> <<7079, 10000>>
    [] db = 0 -> <<1, 1>>
    [] db = 1 -> <<11220, 10000>>
    [] db = 3 -> <<14125, 10000>>
    [] db = 6 -> <<19953, 10000>>
    [] db = 20 -> <<10, 1>>
    [] db = 40 -> <<100, 1>>

\* largest dB value whose power of ten is a finite double: 10 ** 308.25
MaxPowDb == 6165

\* a power whose exponent lost its sign, 10 ** (-abs(volume_gain) / 20.0),
\* for the amplifying gains of the table
DbToLinearMirrored(g) ==
  IF g.k = "fin" /\ g.db \in {3, 6, 20, 40}
  THEN [exc |-> "none", k |-> "fin",
        num |-> Pow10Table(-g.db)[1], den |-> Pow10Table(-g.db)[2]]
  ELSE IF g.k = "fin" /\ g.db <= MaxPowDb
  THEN [exc |-> "none", k |-> "fin",
        num |-> Pow10Table(g.db)[1], den |-> Pow10Table(g.db)[2]]
  ELSE [exc |-> IF g.k = "fin" THEN "OverflowError" ELSE "none",
        k |-> IF g.k = "ninf" THEN "fin" ELSE g.k, num |-> 0, den |-> 1]

\* a power that raises when its result is too small for a double as it does
\* when the result is too large
DbToLinearUnderflowRaises(g) ==
  CASE g.k = "nan" -> [exc |-> "none", k |-> "nan", num |-> 0, den |-> 1]
    [] g.k = "inf" -> [exc |-> "none", k |-> "inf", num |-> 0, den |-> 1]
    [] g.k = "ninf" -> [exc |-> "none", k |-> "fin", num |-> 0, den |-> 1]
    [] g.k = "fin" /\ (g.db > MaxPowDb \/ g.db < -MaxPowDb) ->
         [exc |-> "OverflowError", k |-> "fin", num |-> 0, den |-> 1]
    [] OTHER -> [exc |-> "none", k |-> "fin",
                 num |-> Pow10Table(g.db)[1], den |-> Pow10Table(g.db)[2]]

\* linear_gain = 10 ** (volume_gain / 20.0): Python float power.
\* A finite exponent whose result overflows a double raises OverflowError;
\* inf, -inf and nan exponents give inf, 0.0 and nan without an error.
DbToLinear(g) ==
  CASE g.k = "nan" -> [exc |-> "none", k |-> "nan", num |-> 0, den |-> 1]
    [] g.k = "inf" -> [exc |-> "none", k |-> "inf", num |-> 0, den |-> 1]
    [] g.k = "ninf" -> [exc |-> "none", k |-> "fin", num |-> 0, den |-> 1]
    [] g.k = "fin" /\ g.db > MaxPowDb ->
         [exc |-> "OverflowError", k |-> "fin", num |-> 0, den |-> 1]
    [] OTHER -> [exc |-> "none", k |-> "fin",
                 num |-> Pow10Table(g.db)[1], den |-> Pow10Table(g.db)[2]]

\* ------------------------------------------------------------ arithmetic
\* |x| * num / den for x # 0 and num > 0, computed from a = |x| - 1 without
\* leaving 32 bits: rounded to nearest when nearest, else rounded down;
\* -1 when the result exceeds BigCap.
MagMulDiv(a, num, den, nearest) ==
  LET q == a \div den
      r == a % den
      t == IF nearest THEN (2 * (r + 1) * num + den) \div (2 * den)
                      ELSE ((r + 1) * num) \div den
  IN IF q > BigCap \div num THEN -1
     ELSE IF q * num > BigCap - t THEN -1
     ELSE q * num + t

\* one element of  array * scalar.  A float32 array keeps float32 (result
\* rounded to the grid); an integer array is promoted to float64, whose
\* product is exact: its fraction is dropped here, which commutes with the
\* clip to integer bounds and the truncating astype that follow.
MulScalar(x, lin, isFloat) ==
  CASE x.k = "nan" \/ lin.k = "nan" -> NaN
    [] x.k = "pos" -> IF lin.k = "fin" /\ lin.num = 0 THEN NaN ELSE PosBig
    [] x.k = "neg" -> IF lin.k = "fin" /\ lin.num = 0 THEN NaN ELSE NegBig
    [] lin.k = "inf" -> IF x.v > 0 THEN PosBig ELSE IF x.v < 0 THEN NegBig ELSE NaN
    [] OTHER ->
         IF x.v = 0 \/ lin.num = 0 THEN Fin(0)
         ELSE LET a == IF x.v > 0 THEN x.v - 1 ELSE -(x.v + 1)
                  m == MagMulDiv(a, lin.num, lin.den, isFloat)
              IN IF m = -1 THEN (IF x.v > 0 THEN PosBig ELSE NegBig)
                 ELSE IF x.v > 0 THEN Fin(m) ELSE Fin(-m)

\* np.clip that forgets the upper bound
ClipNoUpper(x, lo, hi) ==
  CASE x.k = "nan" -> NaN
    [] x.k = "pos" -> PosBig
    [] x.k = "neg" -> Fin(lo)
    [] OTHER -> IF x.v < lo THEN Fin(lo) ELSE x

\* one element of np.clip(a, lo, hi): nan stays nan
Clip(x, lo, hi) ==
  CASE x.k = "nan" -> NaN
    [] x.k = "pos" -> Fin(hi)
    [] x.k = "neg" -> Fin(lo)
    [] OTHER -> IF x.v < lo THEN Fin(lo) ELSE IF x.v > hi THEN Fin(hi) ELSE x

\* v wrapped into the two's complement (or unsigned) range lo..hi
Wrap(v, lo, hi) ==
  IF hi = Int32Max THEN v
  ELSE LET w == hi - lo + 1 IN (((v % w) - lo) % w) + lo

\* one element of a.astype(dtype) for a floating array a.  Converting nan or
\* an out-of-range value to an integer type is undefined in C: x86 builds
\* convert through a 32-bit integer whose "indefinite" value is INT_MIN and
\* keep the low bits, ARM builds saturate (nan gives 0) and keep the low bits.
AsType(x, dtype, plat) ==
  IF ~IsInteger(dtype) THEN x
  ELSE LET lo == IInfoMin(dtype)
           hi == IInfoMax(dtype)
       IN CASE x.k = "fin" -> Fin(Wrap(x.v, lo, hi))
            [] x.k = "nan" -> IF plat = "x86" THEN Fin(Wrap(Int32Min, lo, hi)) ELSE Fin(0)
            [] x.k = "pos" -> IF plat = "x86" THEN Fin(Wrap(Int32Min, lo, hi))
                              ELSE Fin(Wrap(Int32Max, lo, hi))
            [] x.k = "neg" -> Fin(Wrap(Int32Min, lo, hi))

\* except ValueError: a handler narrower than the failures of the body
IsValueError(exc) == exc = "ValueError"

\* except Exception: the handler catches every exception the body raises
IsException(exc) ==
  exc \in {"OverflowError", "ValueError", "TypeError", "OSError", "CouldntDecodeError"}

\* --------------------------------------------------- enhance_volume_data
\* a lower clip bound symmetric to the upper one
EnhClipLoSymmetric(dtype) ==
  CASE dtype = "float32" -> -FScale
    [] dtype = "int16" -> -Int16Max
    [] dtype = "int32" -> -Int32Max
    [] OTHER -> IF IsInteger(dtype) THEN -IInfoMax(dtype) ELSE -FScale

\* an upper clip bound whose last branch knows the float range only
EnhClipHiFloatOnly(dtype) ==
  CASE dtype = "float32" -> FScale
    [] dtype = "int16" -> Int16Max
    [] dtype = "int32" -> Int32Max
    [] OTHER -> FScale

\* an upper clip bound that keeps a tenth of the float range as headroom
EnhClipHiHeadroom(dtype) ==
  CASE dtype = "float32" -> (FScale * 9) \div 10
    [] dtype = "int16" -> Int16Max
    [] dtype = "int32" -> Int32Max
    [] OTHER -> IF IsInteger(dtype) THEN IInfoMax(dtype) ELSE FScale

\* lower and upper clip bound chosen by the dtype branches
EnhClipLo(dtype) ==
  CASE dtype = "float32" -> -FScale
    [] dtype = "int16" -> Int16Min
    [] dtype = "int32" -> Int32Min
    [] OTHER -> IF IsInteger(dtype) THEN IInfoMin(dtype) ELSE -FScale
EnhClipHi(dtype) ==
  CASE dtype = "float32" -> FScale
    [] dtype = "int16" -> Int16Max
    [] dtype = "int32" -> Int32Max
    [] OTHER -> IF IsInteger(dtype) THEN IInfoMax(dtype) ELSE FScale

\* dtype of  array * python_float : float32 stays float32, an integer
\* array is promoted to float64
MulDType(dtype) == IF dtype = "float32" THEN "float32" ELSE "float64"

\* a return without the cast back
AsTypeDTypeNoCast(from, to) == from

\* dtype of a.astype(to) for an array a of dtype from
AsTypeDType(from, to) == to

\* what a try body yields when it raises exc
Raise(exc) == [exc |-> exc, out |-> <<>>, dtypeOut |-> "none", pre |-> <<>>, raw |-> <<>>]

\* the body of the try block: the exception raised, or the returned array
\* (out, dtypeOut) with the array it was cast from (pre) and the array
\* before clipping (raw)
EnhanceBody(audio_data, dtype, volume_gain, plat) ==
  LET linear_gain == DbToLinear(volume_gain)
      scaled(x) == MulScalar(x, linear_gain, ~IsInteger(dtype))
      clipped(x) == Clip(scaled(x), EnhClipLo(dtype), EnhClipHi(dtype))
      cast(x) == AsType(clipped(x), dtype, plat)
  IN IF linear_gain.exc # "none"
     THEN Raise(linear_gain.exc)
     ELSE [exc |-> "none", out |-> [i \in 1..Len(audio_data) |-> cast(audio_data[i])],
           dtypeOut |-> AsTypeDType(MulDType(dtype), dtype),
           pre |-> [i \in 1..Len(audio_data) |-> clipped(audio_data[i])],
           raw |-> [i \in 1..Len(audio_data) |-> scaled(audio_data[i])]]

\* a call of a data-level operation, from its try body: the except branch
\* prints the failure and returns the caller's buffer; an exception the
\* handler does not catch reaches the caller
CallResult(body, audio_data, dtype) ==
  IF body.exc = "none"
  THEN [out |-> body.out, dtypeOut |-> body.dtypeOut, pre |-> body.pre,
        raw |-> body.raw, failed |-> FALSE, escaped |-> FALSE]
  ELSE IF IsException(body.exc)
  THEN [out |-> audio_data, dtypeOut |-> dtype, pre |-> <<>>,
        raw |-> <<>>, failed |-> TRUE, escaped |-> FALSE]
  ELSE [out |-> <<>>, dtypeOut |-> "none", pre |-> <<>>,
        raw |-> <<>>, failed |-> TRUE, escaped |-> TRUE]

\* a gain applied at the TTS rate only: any other sample_rate returns the
\* caller's buffer
EnhanceAtTtsRateOnly(audio_data, dtype, sample_rate, volume_gain, plat) ==
  IF sample_rate = 24000
  THEN CallResult(EnhanceBody(audio_data, dtype, volume_gain, plat), audio_data, dtype)
  ELSE [out |-> audio_data, dtypeOut |-> dtype, pre |-> <<>>, raw |-> <<>>,
        failed |-> FALSE, escaped |-> FALSE]

\* sample_rate is a parameter the body never reads
enhance_volume_data(audio_data, dtype, sample_rate, volume_gain, plat) ==
  CallResult(EnhanceBody(audio_data, dtype, volume_gain, plat), audio_data, dtype)

\* ------------------------------------------------------ normalize_volume
\* floor of the square root of n >= 0, by bisection on lo..hi
RECURSIVE SqrtBetween(_, _, _)
SqrtBetween(n, lo, hi) ==
  IF lo >= hi THEN lo
  ELSE LET mid == (lo + hi + 1) \div 2
       IN IF mid * mid <= n THEN SqrtBetween(n, mid, hi) ELSE SqrtBetween(n, lo, mid - 1)

\* np.sqrt of a non-negative value on the grid of squares, rounded to nearest
Sqrt(n) ==
  LET r == SqrtBetween(n, 0, 46340)
  IN IF n - r * r > r THEN r + 1 ELSE r

RECURSIVE SumSq(_)
SumSq(s) == IF s = <<>> THEN 0 ELSE (Head(s).v * Head(s).v) + SumSq(Tail(s))

\* np.mean(a ** 2) without the square root
MeanSquare(a) ==
  IF \E i \in 1..Len(a) : a[i].k = "nan" THEN NaN
  ELSE Fin((SumSq(a) \div Len(a)) \div FScale)

\* np.sqrt(np.mean(a ** 2)) of a float view a: nan when an element is nan.
\* The elements of a view are finite or nan (a clipped array holds no
\* infinity).
Rms(a) ==
  IF \E i \in 1..Len(a) : a[i].k = "nan" THEN NaN
  ELSE Fin(Sqrt(SumSq(a) \div Len(a)))

\* audio_data.astype(np.float32) / max_val, one element.  max_val is
\* 2**31 - 1 for int32, which float32 holds as 2**31; the low 16 bits of an
\* int32 sample are below the grid and are dropped before the division.
FloatView(x, dtype) ==
  LET max_val == IInfoMax(dtype)
      a == IF x.v > 0 THEN x.v - 1 ELSE -(x.v + 1)
      m == IF dtype = "int32" THEN MagMulDiv(a \div 65536, FScale, 32768, TRUE)
           ELSE MagMulDiv(a, FScale, max_val, TRUE)
  IN IF x.v = 0 THEN Fin(0) ELSE IF x.v > 0 THEN Fin(m) ELSE Fin(-m)

\* normalized_float * max_val, one element: the float32 product before the
\* cast.  For int32 the product of 1.0 is 2**31, above the int32 range.
FromFloatView(x, dtype) ==
  LET max_val == IInfoMax(dtype)
      a == IF x.v > 0 THEN x.v - 1 ELSE -(x.v + 1)
      m16 == MagMulDiv(a, 32768, FScale, FALSE)
  IN CASE x.k # "fin" -> x
       [] x.v = 0 -> Fin(0)
       [] dtype = "int32" ->
            IF m16 >= 32768 THEN (IF x.v > 0 THEN PosBig ELSE Fin(Int32Min))
            ELSE IF x.v > 0 THEN Fin(m16 * 65536) ELSE Fin(-(m16 * 65536))
       [] OTHER -> MulScalar(x, [k |-> "fin", num |-> max_val, den |-> FScale], FALSE)

\* one element of  a * gain_factor  with gain_factor = target_rms / current_rms,
\* evaluated as (a / current_rms) * target_rms so that the grid keeps the
\* relative precision of the floating product.  A zero current_rms makes
\* gain_factor inf (nan for a zero or nan target): numpy's scalar division
\* warns and does not raise.
NormScale(x, current_rms, target_rms) ==
  IF current_rms.v = 0
  THEN MulScalar(x, [k |-> IF target_rms.k = "fin" /\ target_rms.num # 0 THEN "inf" ELSE "nan",
                     num |-> 0, den |-> 1], TRUE)
  ELSE MulScalar(MulScalar(x, [k |-> "fin", num |-> FScale, den |-> current_rms.v], TRUE),
                 target_rms, TRUE)

\* current_rms >= 0
RmsNonNegative(current_rms) == current_rms.k = "fin" /\ current_rms.v >= 0

\* current_rms > 0 (false for nan)
RmsPositive(current_rms) == current_rms.k = "fin" /\ current_rms.v > 0

\* the body of the try block
NormalizeBody(audio_data, dtype, target_db, plat) ==
  LET isF32 == dtype = "float32"
      iinfoFails == ~isF32 /\ ~IsInteger(dtype)   \* np.iinfo of a float type
      view(x) == IF isF32 THEN x ELSE FloatView(x, dtype)
      audio_float == [i \in 1..Len(audio_data) |-> view(audio_data[i])]
      current_rms == Rms(audio_float)
      target_rms == DbToLinear(target_db)
      scaled(x) == NormScale(view(x), current_rms, target_rms)
      clipped(x) == Clip(scaled(x), -FScale, FScale)
      back(x) == IF isF32 THEN clipped(x) ELSE FromFloatView(clipped(x), dtype)
      cast(x) == IF isF32 THEN clipped(x) ELSE AsType(back(x), dtype, plat)
  IN IF iinfoFails
     THEN Raise("ValueError")
     ELSE IF target_rms.exc # "none"
     THEN Raise(target_rms.exc)
     ELSE IF RmsPositive(current_rms)
     THEN [exc |-> "none", out |-> [i \in 1..Len(audio_data) |-> cast(audio_data[i])],
           dtypeOut |-> IF isF32 THEN MulDType(dtype)
                        ELSE AsTypeDType(MulDType("float32"), dtype),
           pre |-> [i \in 1..Len(audio_data) |-> back(audio_data[i])],
           raw |-> [i \in 1..Len(audio_data) |-> scaled(audio_data[i])]]
     ELSE [exc |-> "none", out |-> audio_data, dtypeOut |-> dtype,
           pre |-> audio_data, raw |-> <<>>]

normalize_volume(audio_data, dtype, target_db, plat) ==
  CallResult(NormalizeBody(audio_data, dtype, target_db, plat), audio_data, dtype)

\* ------------------------------------------------------ enhance_tts_audio
\* the module-level helper calls the shared instance with the rate 24000
enhance_tts_audio(audio_data, dtype, volume_gain, plat) ==
  enhance_volume_data(audio_data, dtype, 24000, volume_gain, plat)

\* ------------------------------------------------- the caller's own array
\* an in-place product  a *= scalar : the operand becomes the product
OperandAfterIMul(a, product) == product

\* the operand a of  a * scalar  once the product exists: the binary
\* operator allocates its result and leaves the operand as it was
OperandAfterMul(a, product) == a

\* the caller's array after enhance_volume_data ran: line 95 is the only
\* statement that has it as an operand, and line 92 may raise before it
ArgAfterEnhance(audio_data, dtype, volume_gain, plat) ==
  LET body == EnhanceBody(audio_data, dtype, volume_gain, plat)
  IN IF body.exc # "none" THEN audio_data
     ELSE OperandAfterMul(audio_data, body.raw)

\* the caller's array after normalize_volume ran: a float32 array is the
\* operand of line 140; an integer array is copied by astype on line 149 and
\* only the copy is scaled
ArgAfterNormalize(audio_data, dtype, target_db, plat) ==
  LET body == NormalizeBody(audio_data, dtype, target_db, plat)
  IN IF body.exc # "none" \/ body.raw = <<>> \/ dtype # "float32" THEN audio_data
     ELSE OperandAfterMul(audio_data, body.raw)

\* ---------------------------------------------------- enhance_volume_file
SampleWidths == {1, 2, 4}

\* dtype of np.array(audio.get_array_of_samples()) for a sample width
WidthDType(sample_width) ==
  CASE sample_width = 1 -> "int8"
    [] sample_width = 2 -> "int16"
    [] sample_width = 4 -> "int32"

\* the divisor of the conversion to float32 of a 1- or 2-byte sample: 128.0
\* and 32768.0 (the 4-byte divisor 2147483648.0 is above the integers held)
ToFloatDiv(sample_width) ==
  CASE sample_width = 1 -> 128
    [] sample_width = 2 -> 32768

\* the multiplier of the conversion back: 127, 32767 and 2147483647, which
\* a float32 array holds as 2**31
FromFloatMul(sample_width) ==
  CASE sample_width = 1 -> 127
    [] sample_width = 2 -> 32767
    [] sample_width = 4 -> Int32Max

\* -x for an element x; -(-2**31) is above the integers held
Negate(x) ==
  CASE x.k = "nan" -> NaN
    [] x.k = "pos" -> NegBig
    [] x.k = "neg" -> PosBig
    [] OTHER -> IF x.v = Int32Min THEN PosBig ELSE Fin(-x.v)

\* an integer-valued element as float32 holds it: 24 significant bits,
\* round to nearest, ties to even; 2**31 and above is the kind "pos"
AsFloat32(x) ==
  IF x.k # "fin" \/ x.v = Int32Min THEN x
  ELSE LET mag == IF x.v < 0 THEN -x.v ELSE x.v
           step == CHOOSE s \in {1, 2, 4, 8, 16, 32, 64, 128} :
                     /\ mag \div s < 16777216
                     /\ (s = 1 \/ mag \div (s \div 2) >= 16777216)
           r == mag % step
           down == mag - r
           up == (2 * r > step) \/ (2 * r = step /\ (down \div step) % 2 = 1)
       IN IF ~up THEN Fin(IF x.v < 0 THEN -down ELSE down)
          ELSE IF down > Int32Max - step
               THEN (IF x.v < 0 THEN Fin(Int32Min) ELSE PosBig)
               ELSE Fin(IF x.v < 0 THEN -(down + step) ELSE down + step)

\* one sample of a 1- or 2-byte file through lines 41-65: x / div, times the
\* gain, clipped to [-1.0, 1.0], times mul, truncated by astype.  div is a
\* power of two, so the float32 quotient is exact; the product with mul is
\* cut to an integer by the cast
FileSampleNarrow(x, div, mul, lin, dtype, plat) ==
  LET scaled == MulScalar(x, lin, FALSE)         \* the integer part of x * gain
      mag == IF x.v < 0 THEN -x.v ELSE x.v
      t == MagMulDiv((mag * mul) - 1, lin.num, lin.den, FALSE)
  IN CASE scaled.k = "nan" -> AsType(NaN, dtype, plat)
       [] scaled.k = "pos" \/ (scaled.k = "fin" /\ scaled.v >= div) -> Fin(mul)
       [] scaled.k = "neg" \/ (scaled.k = "fin" /\ scaled.v <= -div) -> Fin(-mul)
       [] x.v = 0 \/ lin.num = 0 -> Fin(0)
       [] OTHER -> IF x.v > 0 THEN Fin(t \div div) ELSE Fin(-(t \div div))

\* one sample of a 4-byte file: the division by 2**31 and the product with
\* float32(2147483647) = 2**31 are exact, so the sample is
\* float32(float32(x) * gain) saturated to [-2**31, 2**31] and cast; the
\* upper bound 2**31 itself is outside int32 (kind "pos")
FileSampleWide(x, lin, dtype, plat) ==
  LET held32 == AsFloat32(x)
      product == IF held32.k = "pos"
                 THEN Negate(MulScalar(Fin(Int32Min), lin, FALSE))
                 ELSE MulScalar(held32, lin, FALSE)
      rounded == AsFloat32(product)
      clipped == IF rounded.k = "neg" THEN Fin(Int32Min) ELSE rounded
  IN AsType(clipped, dtype, plat)

\* the try body of enhance_volume_file: the exception raised, or the
\* samples handed to export.  io tells whether the decoder and the encoder
\* of the codec library fail
FileBody(samples, sample_width, volume_gain, io, plat) ==
  LET linear_gain == DbToLinear(volume_gain)
      dt == WidthDType(sample_width)
      enhanced(x) == IF sample_width = 4
                     THEN FileSampleWide(x, linear_gain, dt, plat)
                     ELSE FileSampleNarrow(x, ToFloatDiv(sample_width),
                                           FromFloatMul(sample_width), linear_gain, dt, plat)
  IN IF io.decode # "ok" THEN [exc |-> io.decode, out |-> <<>>]
     ELSE IF linear_gain.exc # "none" THEN [exc |-> linear_gain.exc, out |-> <<>>]
     ELSE IF io.export # "ok" THEN [exc |-> io.export, out |-> <<>>]
     ELSE [exc |-> "none", out |-> [i \in 1..Len(samples) |-> enhanced(samples[i])]]

\* enhance_volume_file: True after the export, False from the except
\* branch; written is what the output file holds
enhance_volume_file(samples, sample_width, volume_gain, io, plat) ==
  LET body == FileBody(samples, sample_width, volume_gain, io, plat)
  IN IF body.exc = "none"
     THEN [ret |-> "True", written |-> body.out, escaped |-> FALSE]
     ELSE IF IsException(body.exc)
     THEN [ret |-> "False", written |-> <<>>, escaped |-> FALSE]
     ELSE [ret |-> "none", written |-> <<>>, escaped |-> TRUE]

\* ------------------------------------------------------------- inputs
\* samples offered to enhance_volume_data: the boundaries of each range,
\* the smallest magnitudes and values in between
SamplesOf(dtype) ==
  CASE dtype = "float32" -> {-FScale, -(FScale \div 2), 0, FScale \div 10, FScale \div 2, FScale}
    [] dtype = "float64" -> {-(FScale \div 2), 0, FScale \div 2}
    [] dtype = "int16" -> {Int16Min, -16000, -1, 0, 1, 16000, Int16Max}
    [] dtype = "int32" -> {Int32Min, -100000, 0, 1, 100000, Int32Max}
    [] dtype = "int8" -> {Int8Min, -1, 0, 1, 64, Int8Max}
    [] dtype = "uint8" -> {0, 1, 128, UInt8Max}

\* samples offered to normalize_volume: zero, the boundaries, and samples
\* of at least a tenth of full scale, whose float view the grid resolves
\* (a sample below the grid would be silence to the model and not to the
\* code); int8 keeps its smallest sample, 1/127 being on the grid
NormSamplesOf(dtype) ==
  CASE dtype = "float32" -> {-FScale, -(FScale \div 2), 0, FScale \div 10, FScale \div 2, FScale}
    [] dtype = "float64" -> {-(FScale \div 2), 0, FScale \div 2}
    [] dtype = "int16" -> {Int16Min, -16000, 0, 4000, 16000, Int16Max}
    [] dtype = "int32" -> {Int32Min, -1073741824, 0, 268435456, Int32Max}
    [] dtype = "int8" -> {Int8Min, -64, 0, 1, 16, Int8Max}
    [] dtype = "uint8" -> {0, 32, 128, UInt8Max}

BuffersOver(S) == UNION {[1..n -> {Fin(v) : v \in S}] : n \in 1..MaxLen}

SampleRates == {24000, 44100}
Platforms == {"x86", "arm"}

\* ------------------------------------------------------------ the state
VARIABLES
  plat,     \* the build the process runs on
  op,       \* the operation called last: "none", "enhance", "normalize", "tts", "file"
  calls,    \* how many times in a row the caller fed a result back
  dtype,    \* representation of the caller's buffer
  buf,      \* the samples the caller passed (for a file: the samples it holds)
  rate,     \* sample_rate argument
  level,    \* volume_gain / target_db argument
  res,      \* what the call returned
  prev,     \* what the call before it returned, when its result was fed back
  held,     \* the caller's own array as it is after the call
  attrs,    \* attribute names of the instance volume_enhancer (self.__dict__)
  io,       \* a file call: whether the codec's decoder and encoder fail
  ret       \* a file call: [ret, written, escaped]

enhVars == <<plat, op, calls, dtype, buf, rate, level, res, prev, held, attrs, io, ret>>

\* callers that use the shared instance volume_enhancer at the same time
VARIABLES
  thread,   \* per caller: where its call is, what it passed, what it got back
  locals    \* per call frame: the local variables of the method running in it

concVars == <<thread, locals>>

\* the API server (src/tts_api.py)
VARIABLES
  model,       \* the global model: "None" or "loaded"
  buildOk,     \* whether build_model succeeds on this host
  voiceFiles,  \* the voice names that have a file <name>.pt in voices_dir
  hpc,         \* where the server is in handling the request
  req,         \* the request being handled
  sel,         \* the voice select_voice_from_request returned
  did,         \* what the handler has done for this request
  resp         \* the response sent

apiVars == <<model, buildOk, voiceFiles, hpc, req, sel, did, resp>>

\* models.download_voice_files (src/models.py)
VARIABLES
  disk,     \* the voice files that exist in the directory voices/
  dl,       \* the frame of the call: its arguments, locals and position
  tries     \* per voice file: the outcomes of its download attempts in this call

dlVars == <<disk, dl, tries>>

\* the speed-dial presets (src/speed_dial.py)
VARIABLES
  presets_file,  \* the content of speed_dial.json
  sd             \* the last speed-dial call: its arguments, what it returned, the file before it

sdVars == <<presets_file, sd>>

\* models.build_model and the patching of json.load (src/models.py)
VARIABLES
  pipeline,            \* _pipeline: None or the KPipeline instance
  pipeline_lock,       \* _pipeline_lock: the thread that holds it, 0 when free
  json_load,           \* the function the name json.load is bound to
  original_json_load,  \* _original_json_load: None or a function
  patches_applied,     \* _patches_applied
  made,                \* how many custom_load closures / KPipelines were created
  local_files,         \* the model and config files that exist
  bt,                  \* per thread: its build_model call
  pcall                \* the last direct call of a patch function, and the
                       \* number of patch_json_load calls right before it

bmVars == <<pipeline, pipeline_lock, json_load, original_json_load,
            patches_applied, made, local_files, bt, pcall>>

\* tts_demo.save_audio_with_retry (src/tts_demo.py)
VARIABLES
  rt,      \* the frame of the call: its arguments, the loop counter, what it returned
  events   \* what the call did so far: "ok" / "fail" (a write), "sleep"

rtVars == <<rt, events>>

\* tts_api.get_model awaited by several requests (src/tts_api.py)
VARIABLES
  model_lock,  \* the coroutine that holds model_lock, 0 when free
  co,          \* per request: where its coroutine is in get_model, what it got
  builds       \* how often build_model was called, and how often it returned

gmVars == <<model_lock, co, builds>>

extVars == <<dlVars, sdVars, bmVars, rtVars, gmVars>>

\* what the actions of one part leave alone
exceptDl == <<enhVars, concVars, apiVars, sdVars, bmVars, rtVars, gmVars>>
exceptSd == <<enhVars, concVars, apiVars, dlVars, bmVars, rtVars, gmVars>>
exceptBm == <<enhVars, concVars, apiVars, dlVars, sdVars, rtVars, gmVars>>
exceptRt == <<enhVars, concVars, apiVars, dlVars, sdVars, bmVars, gmVars>>
exceptGm == <<enhVars, concVars, dlVars, sdVars, bmVars, rtVars>>

vars == <<enhVars, concVars, apiVars, extVars>>

NoResult == [out |-> <<>>, dtypeOut |-> "none", pre |-> <<>>, raw |-> <<>>,
             failed |-> FALSE, escaped |-> FALSE]

NoCall == [buf |-> <<>>, dtype |-> "none", res |-> NoResult]

NoIo == [decode |-> "ok", export |-> "ok"]

NoRet == [ret |-> "none", written |-> <<>>, escaped |-> FALSE]

Callers == {1, 2}

NoArgs == [method |-> "none", audio_data |-> <<>>, dtype |-> "none", level |-> FinDb(0)]

IdleThread == [pc |-> "idle", asked |-> NoArgs, got |-> NoResult, overlap |-> FALSE]

NoFrame == [args |-> NoArgs, result |-> NoResult]

\* no caller is inside the shared instance
ConcIdle ==
  /\ thread = [c \in Callers |-> IdleThread]
  /\ locals = [f \in Callers |-> NoFrame]

NoRequest == [endpoint |-> "none", body |-> <<>>]

NoResponse == [status |-> 0, body |-> "none"]

\* the API server is not running
ApiIdle ==
  /\ model = "None"
  /\ buildOk = TRUE
  /\ voiceFiles = {}
  /\ hpc = "off"
  /\ req = NoRequest
  /\ sel = "none"
  /\ did = {}
  /\ resp = NoResponse

\* VolumeEnhancer.__init__ is `pass`: the instance has no attribute
EnhIdle ==
  /\ plat \in Platforms
  /\ op = "none"
  /\ calls = 0
  /\ dtype = "float32"
  /\ buf = <<>>
  /\ rate = 24000
  /\ level = FinDb(0)
  /\ res = NoResult
  /\ prev = NoCall
  /\ held = <<>>
  /\ attrs = {}
  /\ io = NoIo
  /\ ret = NoRet

\* the voice files the model knows (two of the entries of VOICE_FILES)
VOICE_FILES == <<"af_heart.pt", "af_bella.pt">>

NoDownload == [pc |-> "idle", voice_files |-> [none |-> FALSE, list |-> <<>>], required_count |-> 1,
               files_to_download |-> <<>>, downloaded_voices |-> <<>>,
               failed_voices |-> <<>>, file |-> 1, attempt |-> 0,
               aborted |-> FALSE, result |-> "none"]

NoTries == [f \in {VOICE_FILES[i] : i \in 1..Len(VOICE_FILES)} |-> <<>>]

\* download_voice_files is not running and voices/ is empty
DlIdle ==
  /\ disk = {}
  /\ dl = NoDownload
  /\ tries = NoTries

\* speed_dial.json does not exist
AbsentFile == [state |-> "absent", presets |-> <<>>]

NoSdCall == [op |-> "none", name |-> <<>>, preset |-> <<>>,
             ret |-> FALSE, before |-> AbsentFile]

SdIdle ==
  /\ presets_file = AbsentFile
  /\ sd = NoSdCall

\* Python's None
None == [none |-> TRUE, list |-> <<>>]

\* the library function json.load
LibraryLoad == [fn |-> "json.load", n |-> 0]

BuildThreads == {1, 2}

NoBuild == [pc |-> "idle", model_path |-> "None", device |-> "cpu", before |-> LibraryLoad,
            imported |-> FALSE, initialised |-> FALSE, pipeline_instance |-> None,
            got |-> None]

\* the module models was imported: KPipeline.load_voice is patched,
\* json.load is not, no pipeline exists
BmIdle ==
  /\ pipeline = None
  /\ pipeline_lock = 0
  /\ json_load = LibraryLoad
  /\ original_json_load = None
  /\ patches_applied = [json_load |-> FALSE, load_voice |-> TRUE]
  /\ made = [custom_load |-> 0, KPipeline |-> 0]
  /\ local_files = {}
  /\ bt = [t \in BuildThreads |-> NoBuild]
  /\ pcall = [op |-> "none", patches |-> 0]

NoRetry == [pc |-> "idle", max_retries |-> 3, retry_delay |-> 10, attempt |-> 0,
            ret |-> "none"]

RtIdle ==
  /\ rt = NoRetry
  /\ events = <<>>

Requests == {1, 2}

NoCoroutine == [pc |-> "idle", endpoint |-> "none", got |-> "none", status |-> 0]

GmIdle ==
  /\ model_lock = 0
  /\ co = [r \in Requests |-> NoCoroutine]
  /\ builds = [called |-> 0, returned |-> 0]

ExtIdle == DlIdle /\ SdIdle /\ BmIdle /\ RtIdle /\ GmIdle

Init == EnhIdle /\ ConcIdle /\ ApiIdle /\ ExtIdle

\* a caller invokes enhance_volume_data(audio_data, sample_rate, volume_gain)
CallEnhance ==
  /\ op = "none"
  /\ \E d \in DTypes : \E b \in BuffersOver(SamplesOf(d)) :
     \E sr \in SampleRates : \E g \in Gains :
       /\ op' = "enhance"
       /\ calls' = 1
       /\ dtype' = d
       /\ buf' = b
       /\ rate' = sr
       /\ level' = g
       /\ res' = enhance_volume_data(b, d, sr, g, plat)
       /\ held' = ArgAfterEnhance(b, d, g, plat)
       /\ UNCHANGED <<plat, prev, attrs, io, ret, concVars, apiVars, extVars>>

\* a caller invokes enhance_tts_audio(audio_data, volume_gain)
CallEnhanceTts ==
  /\ op = "none"
  /\ \E d \in DTypes : \E b \in BuffersOver(SamplesOf(d)) : \E g \in Gains :
       /\ op' = "tts"
       /\ calls' = 1
       /\ dtype' = d
       /\ buf' = b
       /\ level' = g
       /\ res' = enhance_tts_audio(b, d, g, plat)
       /\ held' = ArgAfterEnhance(b, d, g, plat)
       /\ UNCHANGED <<plat, rate, prev, attrs, io, ret, concVars, apiVars, extVars>>

\* a caller invokes normalize_volume(audio_data, target_db)
CallNormalize ==
  /\ op = "none"
  /\ \E d \in DTypes : \E b \in BuffersOver(NormSamplesOf(d)) : \E t \in Gains :
       /\ op' = "normalize"
       /\ calls' = 1
       /\ dtype' = d
       /\ buf' = b
       /\ level' = t
       /\ res' = normalize_volume(b, d, t, plat)
       /\ held' = ArgAfterNormalize(b, d, t, plat)
       /\ UNCHANGED <<plat, rate, prev, attrs, io, ret, concVars, apiVars, extVars>>

\* the caller normalizes the buffer it got back, to the same target
NormalizeAgain ==
  /\ op = "normalize"
  /\ calls = 1
  /\ ~res.escaped
  /\ calls' = 2
  /\ buf' = res.out
  /\ dtype' = res.dtypeOut
  /\ res' = normalize_volume(res.out, res.dtypeOut, level, plat)
  /\ held' = ArgAfterNormalize(res.out, res.dtypeOut, level, plat)
  /\ prev' = [buf |-> buf, dtype |-> dtype, res |-> res]
  /\ UNCHANGED <<plat, op, rate, level, attrs, io, ret, concVars, apiVars, extVars>>

\* the outcomes of the codec library: the decoder fails on a missing or
\* undecodable input, the encoder on an output it cannot write
IoOutcomes ==
  [decode : {"ok", "OSError", "CouldntDecodeError"}, export : {"ok", "OSError"}]

\* a caller invokes enhance_volume_file(input_file, output_file, volume_gain)
\* on an input file of width w that holds the samples b
CallEnhanceFile ==
  /\ op = "none"
  /\ \E w \in SampleWidths : \E b \in BuffersOver(SamplesOf(WidthDType(w))) :
     \E g \in Gains : \E o \in IoOutcomes :
       /\ op' = "file"
       /\ calls' = 1
       /\ dtype' = WidthDType(w)
       /\ buf' = b
       /\ level' = g
       /\ io' = o
       /\ ret' = enhance_volume_file(b, w, g, o, plat)
       /\ UNCHANGED <<plat, rate, res, prev, held, attrs, concVars, apiVars, extVars>>

\* the caller drops what it got back; the enhancer keeps nothing
Return ==
  /\ op # "none"
  /\ op' = "none"
  /\ calls' = 0
  /\ dtype' = "float32"
  /\ buf' = <<>>
  /\ rate' = 24000
  /\ level' = FinDb(0)
  /\ res' = NoResult
  /\ prev' = NoCall
  /\ held' = <<>>
  /\ io' = NoIo
  /\ ret' = NoRet
  /\ UNCHANGED <<plat, attrs, concVars, apiVars, extVars>>

Next == CallEnhance \/ CallEnhanceTts \/ CallNormalize \/ NormalizeAgain \/ Return

Spec == Init /\ [][Next]_vars

FileNext == CallEnhanceFile \/ Return

\* the file adapter alone
FileSpec == Init /\ [][FileNext]_vars

\* ------------------------------------------------- concurrent callers
ConcDTypes == {"float32", "int16"}

ConcSamples(d) == IF d = "float32" THEN {-FScale, FScale \div 2} ELSE {Int16Min, 16000}

ConcLevels == {FinDb(-6), FinDb(6)}

\* what a caller passes: the method, its own one-sample buffer, the level
ConcArgs ==
  UNION {[method : {"enhance", "normalize"},
          audio_data : {<<Fin(v)>> : v \in ConcSamples(d)},
          dtype : {d},
          level : ConcLevels] : d \in ConcDTypes}

\* every call writing its variables into one frame, as attributes of the
\* shared instance would be
FrameOfShared(c) == 1

\* the frame that holds the local variables of caller c's call: Python
\* gives every call of a method its own frame
FrameOf(c) == c

\* the method body run on the variables of a frame
RunMethod(args) ==
  IF args.method = "enhance"
  THEN enhance_tts_audio(args.audio_data, args.dtype, args.level, plat)
  ELSE normalize_volume(args.audio_data, args.dtype, args.level, plat)

\* caller c took a step: every other caller inside a call has overlapped
StepOf(c, t) ==
  [d \in Callers |->
     IF d # c /\ t[d].pc \in {"called", "computed"}
     THEN [t[d] EXCEPT !.overlap = TRUE] ELSE t[d]]

\* caller c enters enhance_tts_audio / volume_enhancer.normalize_volume:
\* the arguments are bound in the frame of the call
ConcCall(c) ==
  /\ thread[c].pc = "idle"
  /\ \E a \in ConcArgs :
       /\ thread' = StepOf(c, [thread EXCEPT ![c] =
                                 [pc |-> "called", asked |-> a, got |-> NoResult,
                                  overlap |-> FALSE]])
       /\ locals' = [locals EXCEPT ![FrameOf(c)] = [args |-> a, result |-> NoResult]]
  /\ UNCHANGED <<enhVars, apiVars, extVars>>

\* the body of the method runs on the variables of its frame
ConcCompute(c) ==
  /\ thread[c].pc = "called"
  /\ thread' = StepOf(c, [thread EXCEPT ![c].pc = "computed"])
  /\ locals' = [locals EXCEPT ![FrameOf(c)].result = RunMethod(locals[FrameOf(c)].args)]
  /\ UNCHANGED <<enhVars, apiVars, extVars>>

\* the method returns the array of its frame to caller c; the frame is gone
ConcReturn(c) ==
  /\ thread[c].pc = "computed"
  /\ thread' = StepOf(c, [thread EXCEPT ![c].pc = "returned",
                                        ![c].got = locals[FrameOf(c)].result])
  /\ locals' = [locals EXCEPT ![FrameOf(c)] = NoFrame]
  /\ UNCHANGED <<enhVars, apiVars, extVars>>

\* caller c drops what it got back
ConcDrop(c) ==
  /\ thread[c].pc = "returned"
  /\ thread' = [thread EXCEPT ![c] = IdleThread]
  /\ UNCHANGED <<enhVars, locals, apiVars, extVars>>

ConcNext ==
  \E c \in Callers : ConcCall(c) \/ ConcCompute(c) \/ ConcReturn(c) \/ ConcDrop(c)

\* several callers on the shared instance, interleaved at every step
ConcSpec == Init /\ [][ConcNext]_vars

\* ------------------------------------------------------- the API server
VoiceNames == {"af_bella", "am_adam", "invalid_voice"}

MaxVoices == 2       \* longest voices list of a request

TtsEndpoints == {"/tts/file", "/tts/data", "/tts/save"}

\* JSON bodies posted to a TTS endpoint: a `voices` list or none, a `voice`
\* string or none, a speed inside or outside [0.1, 3.0]
Bodies ==
  [hasVoices : {TRUE}, voices : UNION {[1..n -> VoiceNames] : n \in 0..MaxVoices},
   voice : VoiceNames \cup {"absent"}, speed : {"in", "out"}]
  \cup
  [hasVoices : {FALSE}, voices : {<<>>},
   voice : VoiceNames \cup {"absent"}, speed : {"in", "out"}]

\* FastAPI builds the TTSRequest from the body: `voices` is required
\* (Field(...)), speed must satisfy ge=0.1 and le=3.0, a field the model does
\* not declare (`voice`) is ignored
SchemaOk(body) == body.hasVoices /\ body.speed = "in"

\* validate_voice: the file <voices_dir>/<voice_name>.pt exists
validate_voice(voice_name, files) == voice_name \in files

\* select_voice_from_request: 400 for an empty list and for a list without
\* a valid voice, else random.choice over the valid voices of the list
select_voice_from_request(voices, files) ==
  LET valid_voices == {voices[i] : i \in {j \in 1..Len(voices) : validate_voice(voices[j], files)}}
  IN IF Len(voices) = 0 THEN [status |-> 400, choices |-> {}]
     ELSE IF valid_voices = {} THEN [status |-> 400, choices |-> {}]
     ELSE [status |-> 0, choices |-> valid_voices]

\* get_model: the global model if there is one, else build_model, whose
\* failure becomes HTTPException(500) and leaves the global None
get_model(m, ok) ==
  IF m # "None" THEN [status |-> 0, model |-> m]
  ELSE IF ok THEN [status |-> 0, model |-> "loaded"]
  ELSE [status |-> 500, model |-> "None"]

\* health_check: both branches return a dict, which FastAPI sends with
\* status 200
health_check(m, ok) ==
  IF get_model(m, ok).status = 0
  THEN [status |-> 200, body |-> "healthy"]
  ELSE [status |-> 200, body |-> "unhealthy"]

\* the host the server starts on
ApiInit ==
  /\ EnhIdle /\ ConcIdle /\ ExtIdle
  /\ model = "None"
  /\ buildOk \in BOOLEAN
  /\ voiceFiles \in SUBSET VoiceNames
  /\ hpc = "off"
  /\ req = NoRequest
  /\ sel = "none"
  /\ did = {}
  /\ resp = NoResponse

\* lifespan: the model is preloaded, a failure is logged and swallowed
Startup ==
  /\ hpc = "off"
  /\ model' = get_model(model, buildOk).model
  /\ hpc' = "idle"
  /\ UNCHANGED <<extVars, enhVars, concVars, buildOk, voiceFiles, req, sel, did, resp>>

\* the model file appears on the host or disappears from it
HostChanges ==
  /\ hpc = "idle"
  /\ buildOk' = ~buildOk
  /\ UNCHANGED <<extVars, enhVars, concVars, model, voiceFiles, hpc, req, sel, did, resp>>

\* a client posts a body to /tts/file, /tts/data or /tts/save
Receive ==
  /\ hpc = "idle"
  /\ \E e \in TtsEndpoints : \E b \in Bodies :
       req' = [endpoint |-> e, body |-> b]
  /\ hpc' = "received"
  /\ sel' = "none"
  /\ did' = {}
  /\ resp' = NoResponse
  /\ UNCHANGED <<extVars, enhVars, concVars, model, buildOk, voiceFiles>>

\* FastAPI validates the body against TTSRequest before the handler runs
Validate ==
  /\ hpc = "received"
  /\ IF SchemaOk(req.body)
     THEN hpc' = "validated" /\ UNCHANGED resp
     ELSE hpc' = "responded" /\ resp' = [status |-> 422, body |-> "detail"]
  /\ UNCHANGED <<extVars, enhVars, concVars, model, buildOk, voiceFiles, req, sel, did>>

\* the first statement of the three handlers
SelectVoice ==
  /\ hpc = "validated"
  /\ LET r == select_voice_from_request(req.body.voices, voiceFiles)
     IN IF r.status # 0
        THEN hpc' = "responded" /\ resp' = [status |-> r.status, body |-> "detail"]
             /\ UNCHANGED sel
        ELSE hpc' = "selected" /\ (\E v \in r.choices : sel' = v) /\ UNCHANGED resp
  /\ UNCHANGED <<extVars, enhVars, concVars, model, buildOk, voiceFiles, req, did>>

\* generate_audio obtains the model
GetModel ==
  /\ hpc = "selected"
  /\ did' = did \cup {"get_model"}
  /\ model' = get_model(model, buildOk).model
  /\ IF get_model(model, buildOk).status # 0
     THEN hpc' = "responded"
          /\ resp' = [status |-> get_model(model, buildOk).status, body |-> "detail"]
     ELSE hpc' = "model" /\ UNCHANGED resp
  /\ UNCHANGED <<extVars, enhVars, concVars, buildOk, voiceFiles, req, sel>>

\* generate_audio runs the pipeline with the selected voice: audio, no
\* audio at all, or an exception; the last two become HTTPException(500)
Generate ==
  /\ hpc = "model"
  /\ did' = did \cup {"generate"}
  /\ \E outcome \in {"audio", "no audio", "raise"} :
       IF outcome = "audio"
       THEN hpc' = "generated" /\ UNCHANGED resp
       ELSE hpc' = "responded" /\ resp' = [status |-> 500, body |-> "detail"]
  /\ UNCHANGED <<extVars, enhVars, concVars, model, buildOk, voiceFiles, req, sel>>

\* the handler writes the audio with sf.write and answers
Respond ==
  /\ hpc = "generated"
  /\ \E written \in BOOLEAN :
       resp' = IF written THEN [status |-> 200, body |-> "audio"]
               ELSE [status |-> 500, body |-> "detail"]
  /\ hpc' = "responded"
  /\ UNCHANGED <<extVars, enhVars, concVars, model, buildOk, voiceFiles, req, sel, did>>

\* a client gets /health
Health ==
  /\ hpc = "idle"
  /\ req' = [endpoint |-> "/health", body |-> <<>>]
  /\ sel' = "none"
  /\ did' = {"get_model"}
  /\ model' = get_model(model, buildOk).model
  /\ resp' = health_check(model, buildOk)
  /\ hpc' = "responded"
  /\ UNCHANGED <<extVars, enhVars, concVars, buildOk, voiceFiles>>

\* the response is out, the server waits for the next request
Done ==
  /\ hpc = "responded"
  /\ hpc' = "idle"
  /\ req' = NoRequest
  /\ sel' = "none"
  /\ did' = {}
  /\ resp' = NoResponse
  /\ UNCHANGED <<extVars, enhVars, concVars, model, buildOk, voiceFiles>>

ApiNext ==
  \/ Startup \/ HostChanges \/ Receive \/ Validate \/ SelectVoice
  \/ GetModel \/ Generate \/ Respond \/ Health \/ Done

ApiSpec == ApiInit /\ [][ApiNext]_vars

\* ------------------------------------------- models.download_voice_files
Names(seq) == {seq[i] : i \in 1..Len(seq)}

VoiceFileNames == Names(VOICE_FILES)

\* seq without the elements of S, order kept
RECURSIVE Without(_, _)
Without(seq, S) ==
  IF seq = <<>> THEN <<>>
  ELSE IF Head(seq) \in S THEN Without(Tail(seq), S)
       ELSE <<Head(seq)>> \o Without(Tail(seq), S)

\* the elements of seq that are in S, order kept
RECURSIVE Within(_, _)
Within(seq, S) ==
  IF seq = <<>> THEN <<>>
  ELSE IF Head(seq) \in S THEN <<Head(seq)>> \o Within(Tail(seq), S)
       ELSE Within(Tail(seq), S)

\* the voice_files argument: None, or a list of names without repetition
VoiceFileArgs ==
  {None} \cup
  {[none |-> FALSE, list |-> s] :
     s \in {t \in UNION {[1..n -> VoiceFileNames] : n \in 0..Len(VOICE_FILES)} :
              \A i, j \in 1..Len(t) : i # j => t[i] # t[j]}}

MaxRequired == 3

retry_count == 3

\* what one pass through the body of the retry loop does:
\*   "ok"     the file was fetched and copied and is not empty
\*   "empty"  the copied file has size zero and is removed again
\*   "error"  one of the exceptions the inner handler names was raised
\*   "other"  another Exception was raised; only the outer handler catches it
AttemptOutcomes == {"ok", "empty", "error", "other"}

\* the list a call works on
FilesToDownload(voice_files) ==
  IF voice_files.none THEN VOICE_FILES ELSE voice_files.list

\* the end of the retry loop for the current file: on to the next file, or
\* out of the loop over files
NextFile(frame) ==
  IF frame.file = Len(frame.files_to_download)
  THEN [frame EXCEPT !.pc = "report"]
  ELSE [frame EXCEPT !.file = @ + 1, !.attempt = 0]

NextAttemptFailsAtOnce(frame) ==
  NextFile([frame EXCEPT
    !.failed_voices = Append(@, frame.files_to_download[frame.file])])

\* the next pass of the retry loop for the same file, if one is left
NextAttempt(frame) ==
  IF frame.attempt = retry_count - 1
  THEN NextFile([frame EXCEPT
         !.failed_voices = Append(@, frame.files_to_download[frame.file])])
  ELSE [frame EXCEPT !.attempt = @ + 1]

\* the early return taken when nothing is left to download
ReturnsEarly(files_to_download, downloaded_voices) ==
  files_to_download = <<>> /\ downloaded_voices # <<>>

\* the report at the end of the call
Report(downloaded_voices, required_count) ==
  IF downloaded_voices = <<>> THEN "ValueError"
  ELSE IF Len(downloaded_voices) < required_count THEN "ValueError"
  ELSE "list"

\* the host: any of the voice files may be there already
DlInit ==
  /\ EnhIdle /\ ConcIdle /\ ApiIdle /\ SdIdle /\ BmIdle /\ RtIdle /\ GmIdle
  /\ disk \in SUBSET VoiceFileNames
  /\ dl = NoDownload
  /\ tries = NoTries

\* download_voice_files(voice_files, required_count=n) is called: the files
\* that exist are taken as downloaded, the others are left to download
DlCall ==
  /\ dl.pc = "idle"
  /\ \E vf \in VoiceFileArgs : \E n \in 1..MaxRequired :
       LET requested == FilesToDownload(vf)
           have == Within(requested, disk)
           rest == Without(requested, Names(have))
       IN dl' = [NoDownload EXCEPT
                   !.pc = IF ReturnsEarly(rest, have) THEN "done"
                          ELSE "tempdir",
                   !.voice_files = vf,
                   !.required_count = n,
                   !.files_to_download = rest,
                   !.downloaded_voices = have,
                   !.result = IF ReturnsEarly(rest, have) THEN "list" ELSE "none"]
  /\ tries' = NoTries
  /\ UNCHANGED <<disk, exceptDl>>

\* the temporary directory is created, or creating it raises
DlTempDir ==
  /\ dl.pc = "tempdir"
  /\ \E ok \in BOOLEAN :
       dl' = [dl EXCEPT !.pc = IF ~ok \/ dl.files_to_download = <<>>
                                THEN "report" ELSE "attempt",
                        !.aborted = ~ok]
  /\ UNCHANGED <<disk, tries, exceptDl>>

\* one download attempt for the current file
DlAttempt ==
  /\ dl.pc = "attempt"
  /\ \E o \in AttemptOutcomes :
       LET voice_file == dl.files_to_download[dl.file] IN
       /\ tries' = [tries EXCEPT ![voice_file] = Append(@, o)]
       /\ CASE o = "ok" ->
                 /\ disk' = disk \cup {voice_file}
                 /\ dl' = NextFile([dl EXCEPT
                            !.downloaded_voices = Append(@, voice_file)])
            [] o = "empty" ->
                 /\ disk' = disk \ {voice_file}
                 /\ dl' = NextAttempt(dl)
            [] o = "error" ->
                 /\ UNCHANGED disk
                 /\ dl' = NextAttempt(dl)
            [] o = "other" ->
                 /\ UNCHANGED disk
                 /\ dl' = [dl EXCEPT !.pc = "report", !.aborted = TRUE]
  /\ UNCHANGED <<exceptDl>>

\* the results are reported: the list is returned or ValueError is raised
DlReport ==
  /\ dl.pc = "report"
  /\ dl' = [dl EXCEPT !.pc = "done",
                      !.result = Report(dl.downloaded_voices, dl.required_count)]
  /\ UNCHANGED <<disk, tries, exceptDl>>

\* the caller has the outcome
DlReturn ==
  /\ dl.pc = "done"
  /\ dl' = NoDownload
  /\ tries' = NoTries
  /\ UNCHANGED <<disk, exceptDl>>

DlNext == DlCall \/ DlTempDir \/ DlAttempt \/ DlReport \/ DlReturn

DlSpec == DlInit /\ [][DlNext]_vars

\* ------------------------------------------------ speed-dial presets
\* A string is held by what the code looks at: its length and the class of
\* its characters ("word": letters, digits, _ and - only; "spaced": those and
\* spaces, not only spaces; "blank": empty or whitespace only; "other": some
\* other character), with an id that tells two strings apart.
Str(id, len, class) == [id |-> id, len |-> len, class |-> class]

MaxNameLen == 50
MaxTextLen == 10000
MinSpeed == 1
MaxSpeed == 30
DefaultSpeed == 10

PresetNames ==
  {Str("hello", 5, "word"), Str("my preset", 9, "spaced"),
   Str("a/b", 3, "other"), Str("", 0, "blank"), Str("x * 51", 51, "word")}

PresetVoices == {Str("af_bella", 8, "word"), Str("af bella", 8, "spaced")}

PresetTexts == {Str("Hello there", 11, "spaced"), Str("   ", 3, "blank")}

PresetFormats == {"mp3", "ogg"}

\* speeds in tenths: 2.0 and 5.0
PresetSpeeds == {20, 50}

\* save_preset's checks of the name (lines 63-75)
NameOk(name) ==
  /\ name.class # "blank"
  /\ name.len <= MaxNameLen
  /\ name.class \in {"word", "spaced"}

\* validate_preset(preset): whether the preset is valid, and the preset as
\* the call leaves it (the defaults filled in)
validate_preset(preset) ==
  LET withFormat == IF "format" \in DOMAIN preset THEN preset
                    ELSE preset @@ [format |-> "wav"]
      filled == IF "speed" \in DOMAIN withFormat THEN withFormat
                ELSE withFormat @@ [speed |-> DefaultSpeed]
  IN [ok |-> /\ {"voice", "text"} \subseteq DOMAIN preset
             /\ preset.voice.class = "word"
             /\ preset.text.len <= MaxTextLen
             /\ preset.text.class # "blank"
             /\ filled.format \in {"wav", "mp3", "aac"}
             /\ filled.speed >= MinSpeed /\ filled.speed <= MaxSpeed,
      preset |-> filled]

LoadPresetsUnvalidated(file) ==
  IF file.state # "json" THEN <<>> ELSE file.presets

\* load_presets(): the valid presets of the file; none when the file is not
\* there or cannot be decoded
load_presets(file) ==
  IF file.state # "json" THEN <<>>
  ELSE [n \in {m \in DOMAIN file.presets : validate_preset(file.presets[m]).ok}
          |-> validate_preset(file.presets[n]).preset]

\* open(SPEED_DIAL_FILE, 'w') and json.dump: "ok"; "open_fails" (IOError
\* before the file is touched); "write_fails" (IOError after the file was
\* truncated)
WriteOutcomes == {"ok", "open_fails", "write_fails"}

WriteFile(file, presets, wr) ==
  CASE wr = "ok" -> [state |-> "json", presets |-> presets]
    [] wr = "open_fails" -> file
    [] wr = "write_fails" -> [state |-> "corrupt", presets |-> <<>>]

PutKeepsFirst(presets, name, preset) ==
  [n \in DOMAIN presets \cup {name} |->
     IF n \in DOMAIN presets THEN presets[n] ELSE preset]

\* presets[name] = preset
Put(presets, name, preset) ==
  [n \in DOMAIN presets \cup {name} |-> IF n = name THEN preset ELSE presets[n]]

save_preset(name, voice, text, format, speed, file, wr) ==
  LET v == validate_preset([voice |-> voice, text |-> text,
                            format |-> format, speed |-> speed])
  IN IF ~NameOk(name) \/ ~v.ok THEN [ret |-> FALSE, file |-> file]
     ELSE [ret |-> wr = "ok",
           file |-> WriteFile(file, Put(load_presets(file), name, v.preset), wr)]

delete_preset(name, file, wr) ==
  LET presets == load_presets(file)
  IN IF name \notin DOMAIN presets THEN [ret |-> FALSE, file |-> file]
     ELSE [ret |-> wr = "ok",
           file |-> WriteFile(file, [n \in DOMAIN presets \ {name} |-> presets[n]], wr)]

\* get_preset(name): the preset, or None
get_preset(name, file) ==
  IF name \in DOMAIN load_presets(file) THEN load_presets(file)[name] ELSE None

get_preset_names(file) == DOMAIN load_presets(file)

\* what a name can be stored with in a file the program finds: presets it
\* wrote itself, and presets written by hand (fields left out, bad values)
StoredPresets ==
  {[voice |-> Str("af_bella", 8, "word"), text |-> Str("Hello there", 11, "spaced"),
    format |-> "mp3", speed |-> 20],
   [voice |-> Str("am_adam", 7, "word"), text |-> Str("Hello there", 11, "spaced")],
   [voice |-> Str("am_adam", 7, "word"), text |-> Str("Hello there", 11, "spaced"),
    format |-> "wav", speed |-> 50],
   [voice |-> Str("af_bella", 8, "word")]}

StoredNames == {Str("hello", 5, "word"), Str("my preset", 9, "spaced")}

PresetFiles ==
  {AbsentFile, [state |-> "corrupt", presets |-> <<>>]} \cup
  {[state |-> "json", presets |-> d] :
     d \in UNION {[D -> StoredPresets] : D \in SUBSET StoredNames}}

SdInit ==
  /\ EnhIdle /\ ConcIdle /\ ApiIdle /\ DlIdle /\ BmIdle /\ RtIdle /\ GmIdle
  /\ presets_file \in PresetFiles
  /\ sd = NoSdCall

\* save_preset(name, voice, text, format, speed)
SdSave ==
  /\ \E name \in PresetNames : \E voice \in PresetVoices : \E text \in PresetTexts :
     \E format \in PresetFormats : \E speed \in PresetSpeeds : \E wr \in WriteOutcomes :
       LET r == save_preset(name, voice, text, format, speed, presets_file, wr) IN
       /\ presets_file' = r.file
       /\ sd' = [op |-> "save", name |-> name,
                 preset |-> [voice |-> voice, text |-> text,
                             format |-> format, speed |-> speed],
                 ret |-> r.ret, before |-> presets_file]
  /\ UNCHANGED exceptSd

\* delete_preset(name)
SdDelete ==
  /\ \E name \in PresetNames : \E wr \in WriteOutcomes :
       LET r == delete_preset(name, presets_file, wr) IN
       /\ presets_file' = r.file
       /\ sd' = [op |-> "delete", name |-> name, preset |-> <<>>,
                 ret |-> r.ret, before |-> presets_file]
  /\ UNCHANGED exceptSd

SdNext == SdSave \/ SdDelete

SdSpec == SdInit /\ [][SdNext]_vars

\* -------------------------------- json.load patching and build_model
MaxPatches == 4
MaxPipelines == 2

\* the module state of the patch functions
PatchState == [json_load |-> json_load, original |-> original_json_load,
               applied |-> patches_applied, made |-> made]

\* patch_json_load(): json.load as it is now is remembered and a new
\* custom_load closure takes its place
patch_json_load(st) ==
  [st EXCEPT !.original = st.json_load,
             !.json_load = [fn |-> "custom_load", n |-> st.made.custom_load + 1],
             !.applied.json_load = TRUE,
             !.made.custom_load = @ + 1]

\* restore_json_load()
restore_json_load(st) ==
  IF st.original # None /\ st.applied.json_load
  THEN [st EXCEPT !.json_load = st.original,
                  !.original = None,
                  !.applied.json_load = FALSE]
  ELSE st

\* _cleanup_monkey_patches(): json.load, then KPipeline.load_voice
cleanup_monkey_patches(st) ==
  LET a == IF st.applied.json_load /\ st.original # None
           THEN [restore_json_load(st) EXCEPT !.applied.json_load = FALSE]
           ELSE st
  IN [a EXCEPT !.applied.load_voice = FALSE]

\* the module state becomes st
SetPatchState(st) ==
  /\ json_load' = st.json_load
  /\ original_json_load' = st.original
  /\ patches_applied' = st.applied
  /\ made' = st.made

\* a direct call of patch_json_load()
PatchJsonLoad ==
  /\ made.custom_load < MaxPatches
  /\ SetPatchState(patch_json_load(PatchState))
  /\ pcall' = [op |-> "patch",
               patches |-> IF pcall.op = "patch" THEN pcall.patches + 1 ELSE 1]
  /\ UNCHANGED <<pipeline, pipeline_lock, local_files, bt, exceptBm>>

\* a direct call of restore_json_load()
RestoreJsonLoad ==
  /\ SetPatchState(restore_json_load(PatchState))
  /\ pcall' = [op |-> "restore",
               patches |-> IF pcall.op = "patch" THEN pcall.patches ELSE 0]
  /\ UNCHANGED <<pipeline, pipeline_lock, local_files, bt, exceptBm>>

\* _cleanup_monkey_patches() runs (at exit, on a signal, on shutdown)
Cleanup ==
  /\ SetPatchState(cleanup_monkey_patches(PatchState))
  /\ pcall' = [op |-> "cleanup",
               patches |-> IF pcall.op = "patch" THEN pcall.patches ELSE 0]
  /\ UNCHANGED <<pipeline, pipeline_lock, local_files, bt, exceptBm>>

PatchNext == PatchJsonLoad \/ RestoreJsonLoad \/ Cleanup

PatchSpec == Init /\ [][PatchNext]_vars

\* ---- build_model(model_path, device), one step at a time per thread
ModelPaths == {"None", "custom.pth"}
Devices == {"cpu", "cuda"}

\* the file build_model looks for
ModelFile(model_path) == IF model_path = "None" THEN "kokoro-v1_0.pth" ELSE model_path

\* thread t leaves build_model with what it returns or raises
Leave(t, frame, outcome) ==
  /\ bt' = [bt EXCEPT ![t] = [frame EXCEPT !.pc = "done", !.got = outcome]]
  /\ pipeline_lock' = 0

\* thread t goes on inside the try block, or to the handler on line 430
Continue(t, frame, ok, next) ==
  bt' = [bt EXCEPT ![t] = [frame EXCEPT !.pc = IF ok THEN next ELSE "except"]]

\* build_model(model_path, device) is called by thread t
BmCall(t) ==
  /\ bt[t].pc = "idle"
  /\ \E mp \in ModelPaths : \E dev \in Devices :
       bt' = [bt EXCEPT ![t] = [NoBuild EXCEPT !.pc = "acquire", !.model_path = mp,
                                               !.device = dev]]
  /\ UNCHANGED <<pipeline, pipeline_lock, json_load, original_json_load,
                 patches_applied, made, local_files, pcall, exceptBm>>

BmAcquireNoCheck(t) ==
  /\ bt[t].pc = "acquire"
  /\ pipeline_lock = 0
  /\ pipeline_lock' = t
  /\ bt' = [bt EXCEPT ![t] = [@ EXCEPT !.pc = "patch", !.before = json_load]]
  /\ UNCHANGED <<pipeline, json_load, original_json_load,
                 patches_applied, made, local_files, pcall, exceptBm>>

\* with _pipeline_lock: the lock is taken; a pipeline that exists is returned
BmAcquire(t) ==
  /\ bt[t].pc = "acquire"
  /\ pipeline_lock = 0
  /\ IF pipeline # None
     THEN Leave(t, bt[t], pipeline)
     ELSE /\ pipeline_lock' = t
          /\ bt' = [bt EXCEPT ![t] = [@ EXCEPT !.pc = "patch", !.before = json_load]]
  /\ UNCHANGED <<pipeline, json_load, original_json_load,
                 patches_applied, made, local_files, pcall, exceptBm>>

\* patch_json_load() at the start of the try block
BmPatch(t) ==
  /\ bt[t].pc = "patch"
  /\ made.custom_load < MaxPatches
  /\ SetPatchState(patch_json_load(PatchState))
  /\ bt' = [bt EXCEPT ![t] = [@ EXCEPT !.pc = "model", !.initialised = TRUE]]
  /\ UNCHANGED <<pipeline, pipeline_lock, local_files, pcall, exceptBm>>

\* the model file: there, or downloaded (hf_hub_download is imported here)
BmModel(t) ==
  /\ bt[t].pc = "model"
  /\ IF ModelFile(bt[t].model_path) \in local_files
     THEN /\ Continue(t, bt[t], TRUE, "config")
          /\ UNCHANGED local_files
     ELSE \E ok \in BOOLEAN :
            /\ Continue(t, [bt[t] EXCEPT !.imported = TRUE], ok, "config")
            /\ local_files' = IF ok THEN local_files \cup {"kokoro-v1_0.pth"}
                              ELSE local_files
  /\ UNCHANGED <<pipeline, pipeline_lock, json_load, original_json_load,
                 patches_applied, made, pcall, exceptBm>>

\* config.json: there, or downloaded; hf_hub_download is a local name that is
\* bound only when the model was downloaded in this call
BmConfig(t) ==
  /\ bt[t].pc = "config"
  /\ IF "config.json" \in local_files
     THEN /\ Continue(t, bt[t], TRUE, "voices")
          /\ UNCHANGED local_files
     ELSE \E ok \in IF bt[t].imported THEN BOOLEAN ELSE {FALSE} :
            /\ Continue(t, bt[t], ok, "voices")
            /\ local_files' = IF ok THEN local_files \cup {"config.json"}
                              ELSE local_files
  /\ UNCHANGED <<pipeline, pipeline_lock, json_load, original_json_load,
                 patches_applied, made, pcall, exceptBm>>

\* download_voice_files(required_count=1) returns a list or raises ValueError
BmVoices(t) ==
  /\ bt[t].pc = "voices"
  /\ \E r \in {"list", "ValueError"} : Continue(t, bt[t], r = "list", "construct")
  /\ UNCHANGED <<pipeline, pipeline_lock, json_load, original_json_load,
                 patches_applied, made, local_files, pcall, exceptBm>>

\* KPipeline(lang_code) is constructed, or raises
BmConstruct(t) ==
  /\ bt[t].pc = "construct"
  /\ made.KPipeline < MaxPipelines
  /\ \E ok \in BOOLEAN :
       /\ Continue(t, [bt[t] EXCEPT !.pipeline_instance =
                         IF ok THEN [obj |-> "KPipeline", n |-> made.KPipeline + 1,
                                     device |-> bt[t].device]
                         ELSE None],
                   ok, "store")
       /\ made' = IF ok THEN [made EXCEPT !.KPipeline = @ + 1] ELSE made
  /\ UNCHANGED <<pipeline, pipeline_lock, json_load, original_json_load,
                 patches_applied, local_files, pcall, exceptBm>>

\* _pipeline = pipeline_instance; return _pipeline
BmStore(t) ==
  /\ bt[t].pc = "store"
  /\ pipeline' = bt[t].pipeline_instance
  /\ Leave(t, bt[t], bt[t].pipeline_instance)
  /\ UNCHANGED <<json_load, original_json_load,
                 patches_applied, made, local_files, pcall, exceptBm>>

BmExceptKeepsPatch(t) ==
  /\ bt[t].pc = "except"
  /\ Leave(t, bt[t], [exc |-> "Exception"])
  /\ UNCHANGED <<pipeline, json_load, original_json_load,
                 patches_applied, made, local_files, pcall, exceptBm>>

\* except Exception: restore_json_load(); raise
BmExcept(t) ==
  /\ bt[t].pc = "except"
  /\ SetPatchState(restore_json_load(PatchState))
  /\ Leave(t, bt[t], [exc |-> "Exception"])
  /\ UNCHANGED <<pipeline, local_files, pcall, exceptBm>>

\* the caller has the pipeline or the exception
BmReturn(t) ==
  /\ bt[t].pc = "done"
  /\ bt' = [bt EXCEPT ![t] = NoBuild]
  /\ UNCHANGED <<pipeline, pipeline_lock, json_load, original_json_load,
                 patches_applied, made, local_files, pcall, exceptBm>>

BuildNext ==
  \E t \in BuildThreads :
    \/ BmCall(t) \/ BmAcquire(t) \/ BmPatch(t) \/ BmModel(t) \/ BmConfig(t)
    \/ BmVoices(t) \/ BmConstruct(t) \/ BmStore(t) \/ BmExcept(t) \/ BmReturn(t)

\* the host: any of the files may be there already
BuildInit ==
  /\ EnhIdle /\ ConcIdle /\ ApiIdle /\ DlIdle /\ SdIdle /\ RtIdle /\ GmIdle
  /\ pipeline = None
  /\ pipeline_lock = 0
  /\ json_load = LibraryLoad
  /\ original_json_load = None
  /\ patches_applied = [json_load |-> FALSE, load_voice |-> TRUE]
  /\ made = [custom_load |-> 0, KPipeline |-> 0]
  /\ local_files \in SUBSET {"kokoro-v1_0.pth", "custom.pth", "config.json"}
  /\ bt = [t \in BuildThreads |-> NoBuild]
  /\ pcall = [op |-> "none", patches |-> 0]

BuildSpec == BuildInit /\ [][BuildNext]_vars

\* ------------------------------------- tts_demo.save_audio_with_retry
MaxRetries == 4

\* retry_delay in tenths of a second
RetryDelays == {0, 10, 20}

\* save_audio_with_retry(audio_data, sample_rate, output_path, max_retries,
\* retry_delay) is called; with max_retries = 0 the loop body never runs
RtCall ==
  /\ rt.pc = "idle"
  /\ \E m \in 0..MaxRetries : \E d \in RetryDelays :
       rt' = [NoRetry EXCEPT !.max_retries = m, !.retry_delay = d,
                             !.pc = IF m = 0 THEN "done" ELSE "write",
                             !.ret = IF m = 0 THEN "False" ELSE "none"]
  /\ events' = <<>>
  /\ UNCHANGED exceptRt

RtWriteAlwaysSleeps ==
  /\ rt.pc = "write"
  /\ \E ok \in BOOLEAN :
       /\ events' = Append(events, IF ok THEN "ok" ELSE "fail")
       /\ rt' = IF ok THEN [rt EXCEPT !.pc = "done", !.ret = "True"]
                ELSE [rt EXCEPT !.pc = "sleep"]
  /\ UNCHANGED exceptRt

\* one pass of the loop: sf.write succeeds and True is returned, or it raises
\* and the handler goes to sleep or, at the last attempt, returns False
RtWrite ==
  /\ rt.pc = "write"
  /\ \E ok \in BOOLEAN :
       /\ events' = Append(events, IF ok THEN "ok" ELSE "fail")
       /\ rt' = IF ok THEN [rt EXCEPT !.pc = "done", !.ret = "True"]
                ELSE IF rt.attempt < rt.max_retries - 1
                     THEN [rt EXCEPT !.pc = "sleep"]
                     ELSE [rt EXCEPT !.pc = "done", !.ret = "False"]
  /\ UNCHANGED exceptRt

\* time.sleep(retry_delay) is over; the loop goes to the next attempt, or
\* ends when none is left and False is returned after the loop
RtSleep ==
  /\ rt.pc = "sleep"
  /\ events' = Append(events, "sleep")
  /\ rt' = IF rt.attempt + 1 < rt.max_retries
           THEN [rt EXCEPT !.pc = "write", !.attempt = @ + 1]
           ELSE [rt EXCEPT !.pc = "done", !.ret = "False"]
  /\ UNCHANGED exceptRt

\* the caller has the result
RtReturn ==
  /\ rt.pc = "done"
  /\ rt' = NoRetry
  /\ events' = <<>>
  /\ UNCHANGED exceptRt

RetryNext == RtCall \/ RtWrite \/ RtSleep \/ RtReturn

\* one thread runs the call: a write returns or raises, a sleep ends
RetrySpec ==
  /\ Init /\ [][RetryNext]_vars
  /\ WF_vars(RtWrite) /\ WF_vars(RtSleep)

\* ------------------------- tts_api.get_model, one step at a time per request
MaxBuilds == 3

\* a request arrives whose handler awaits get_model(), or the server starts
\* and lifespan awaits it
GmRequest(r) ==
  /\ co[r].pc \in {"idle", "done"}
  /\ \E e \in TtsEndpoints \cup {"/health", "lifespan"} :
       co' = [co EXCEPT ![r] = [NoCoroutine EXCEPT !.pc = "check", !.endpoint = e]]
  /\ UNCHANGED <<model, model_lock, builds, buildOk, voiceFiles, hpc, req, sel, did,
                 resp, exceptGm>>

\* if model is None: (the check outside the lock)
GmCheck(r) ==
  /\ co[r].pc = "check"
  /\ co' = [co EXCEPT ![r].pc = IF model = "None" THEN "acquire" ELSE "return"]
  /\ UNCHANGED <<model, model_lock, builds, buildOk, voiceFiles, hpc, req, sel, did,
                 resp, exceptGm>>

\* async with model_lock: the coroutine goes on when the lock is free
GmAcquire(r) ==
  /\ co[r].pc = "acquire"
  /\ model_lock = 0
  /\ model_lock' = r
  /\ co' = [co EXCEPT ![r].pc = "locked"]
  /\ UNCHANGED <<model, builds, buildOk, voiceFiles, hpc, req, sel, did,
                 resp, exceptGm>>

GmBuildNoSecondCheck(r) ==
  /\ co[r].pc = "locked"
  /\ builds.called < MaxBuilds
  /\ \E ok \in BOOLEAN :
       /\ builds' = [called |-> builds.called + 1,
                     returned |-> builds.returned + (IF ok THEN 1 ELSE 0)]
       /\ model' = IF ok THEN "loaded" ELSE model
       /\ co' = [co EXCEPT ![r].pc = IF ok THEN "release" ELSE "raise"]
  /\ UNCHANGED <<model_lock, buildOk, voiceFiles, hpc, req, sel, did, resp, exceptGm>>

\* if model is None: (the check under the lock) model = build_model(...),
\* or the except branch when build_model raises
GmBuild(r) ==
  /\ co[r].pc = "locked"
  /\ IF model # "None"
     THEN /\ co' = [co EXCEPT ![r].pc = "release"]
          /\ UNCHANGED <<model, builds>>
     ELSE /\ builds.called < MaxBuilds
          /\ \E ok \in BOOLEAN :
               /\ builds' = [called |-> builds.called + 1,
                             returned |-> builds.returned + (IF ok THEN 1 ELSE 0)]
               /\ model' = IF ok THEN "loaded" ELSE model
               /\ co' = [co EXCEPT ![r].pc = IF ok THEN "release" ELSE "raise"]
  /\ UNCHANGED <<model_lock, buildOk, voiceFiles, hpc, req, sel, did, resp, exceptGm>>

\* the async with block is left: the lock is released; HTTPException(500)
\* goes up to the handler, or get_model goes on to its return statement
GmRelease(r) ==
  /\ co[r].pc \in {"release", "raise"}
  /\ model_lock' = 0
  /\ co' = [co EXCEPT ![r] = IF co[r].pc = "raise"
                             THEN [@ EXCEPT !.pc = "respond", !.got = "HTTPException"]
                             ELSE [@ EXCEPT !.pc = "return"]]
  /\ UNCHANGED <<model, builds, buildOk, voiceFiles, hpc, req, sel, did,
                 resp, exceptGm>>

\* return model
GmReturn(r) ==
  /\ co[r].pc = "return"
  /\ co' = [co EXCEPT ![r] = [@ EXCEPT !.pc = "respond", !.got = model]]
  /\ UNCHANGED <<model, model_lock, builds, buildOk, voiceFiles, hpc, req, sel, did,
                 resp, exceptGm>>

\* the handler answers: generate_audio lets the HTTPException through (500),
\* health_check catches it and returns a dict (200), lifespan logs it
GmRespond(r) ==
  /\ co[r].pc = "respond"
  /\ co' = [co EXCEPT ![r] = [@ EXCEPT !.pc = "done",
              !.status = IF co[r].endpoint = "/health" THEN 200
                         ELSE IF co[r].endpoint = "lifespan" THEN 0
                         ELSE IF co[r].got = "HTTPException" THEN 500 ELSE 200]]
  /\ UNCHANGED <<model, model_lock, builds, buildOk, voiceFiles, hpc, req, sel, did,
                 resp, exceptGm>>

GmNext ==
  \E r \in Requests :
    \/ GmRequest(r) \/ GmCheck(r) \/ GmAcquire(r) \/ GmBuild(r)
    \/ GmRelease(r) \/ GmReturn(r) \/ GmRespond(r)

GmSpec == Init /\ [][GmNext]_vars

\* ================================================================ claims
InRange(x, d) == x.k = "fin" /\ x.v >= RangeLo(d) /\ x.v <= RangeHi(d)
IsFiniteDb(g) == g.k = "fin"

\* largest gain whose linear multiplier is a finite float32: 10 ** 38.5
MaxF32Db == (20 * 38) + 10

\* C1: for every buffer of a supported representation, every sample rate and
\* every gain_db, each sample returned by enhance_volume_data lies in the
\* representable range of the representation, and is the clipped value
\* itself (the cast back did not wrap).
C1_OutputInRange ==
  (op = "enhance" /\ dtype \in SupportedDTypes) =>
    \A i \in 1..Len(res.out) :
      /\ InRange(res.out[i], dtype)
      /\ ~res.failed => res.pre[i] = res.out[i]

\* C2: enhance_volume_data and normalize_volume return a buffer with the
\* number of samples and the representation of their input, on the success
\* path, the silent-buffer path and the failure path.
C2_ShapePreserved ==
  (op # "none" /\ ~res.escaped) =>
    (Len(res.out) = Len(buf) /\ res.dtypeOut = dtype)

C2_Witness ==
  /\ op = "normalize" /\ calls = 1 /\ dtype = "int16"
  /\ ~res.failed /\ res.raw # <<>> /\ Len(buf) = 2
  /\ res.out # buf

\* the scaled value r of sample s is s * num / den: rounded to the grid for
\* a float buffer, with its fraction dropped for an integer buffer
ProductOf(s, r, num, den, isFloat) ==
  LET mag == IF s > 0 THEN s ELSE -s
      sameSign == (r.k = "fin" => r.v = 0 \/ (r.v > 0) = (s > 0))
                    /\ (r.k = "pos" => s > 0) /\ (r.k = "neg" => s < 0) /\ r.k # "nan"
  IN CASE num = 0 \/ s = 0 -> r = Fin(0)
       [] s # 0 /\ num # 0 /\ s # Int32Min /\ mag <= (BigCap - 100000) \div num ->
            /\ r.k = "fin"
            /\ IF isFloat
               THEN 2 * (r.v * den - s * num) <= den /\ 2 * (s * num - r.v * den) <= den
               ELSE IF s > 0 THEN r.v * den <= s * num /\ s * num < (r.v + 1) * den
               ELSE r.v * den >= s * num /\ s * num > (r.v - 1) * den
       [] OTHER ->
            /\ sameSign
            /\ den = 1 => IF s # Int32Min /\ mag <= BigCap \div num
                          THEN r = Fin(s * num)
                          ELSE r.k = (IF s > 0 THEN "pos" ELSE "neg")

\* the returned sample o is the scaled value r saturated to lo..hi
SaturationOf(r, o, lo, hi) ==
  CASE r.k = "pos" -> o = Fin(hi)
    [] r.k = "neg" -> o = Fin(lo)
    [] r.k = "fin" -> o = Fin(IF r.v > hi THEN hi ELSE IF r.v < lo THEN lo ELSE r.v)
    [] OTHER -> FALSE

ScaledAndClamped ==
  /\ ~res.failed
  /\ Len(res.raw) = Len(buf) /\ Len(res.out) = Len(buf)
  /\ \A i \in 1..Len(buf) :
       /\ ProductOf(buf[i].v, res.raw[i], Pow10Table(level.db)[1], Pow10Table(level.db)[2],
                    ~IsInteger(dtype))
       /\ SaturationOf(res.raw[i], res.out[i], RangeLo(dtype), RangeHi(dtype))

C4_ZeroDbIsNoOp ==
  (op = "enhance" /\ dtype \in SupportedDTypes /\ level = FinDb(0)) =>
    (res.out = buf /\ ~res.failed)

C4_Witness ==
  /\ op = "enhance" /\ level = FinDb(0) /\ dtype = "int16"
  /\ \E i \in 1..Len(buf) : buf[i] = Fin(Int16Min) /\ res.out[i] = Fin(Int16Min)
  /\ \E i \in 1..Len(buf) : buf[i] = Fin(Int16Max)

\* C5: no exception of enhance_volume_data or normalize_volume reaches the
\* caller; every internal failure ends in a normal return of the caller's
\* buffer, unchanged.
C5_FailureReturnsInput ==
  op # "none" =>
    /\ ~res.escaped
    /\ res.failed => (res.out = buf /\ res.dtypeOut = dtype)

C5_Witness ==
  /\ op = "enhance" /\ res.failed /\ ~res.escaped
  /\ level = FinDb(7000) /\ Len(buf) = 2 /\ res.out = buf


C7_NonFiniteGainReturnsInput ==
  (op = "enhance" /\ ~IsFiniteDb(level)) => res.out = buf

AllZero(b) == \A i \in 1..Len(b) : b[i] = Fin(0)

SilentUnchanged == res.out = buf /\ ~res.failed

\* C8 as stated: normalize_volume of an all-zero buffer of a supported
\* representation returns it unchanged and reports no error, for any target_db.
C8_SilentUnchangedAnyTarget ==
  (op = "normalize" /\ dtype \in SupportedDTypes /\ AllZero(buf)) => SilentUnchanged

\* C8 amended: the same for every target_db whose 10^(target_db/20) is a
\* finite double or which is not finite; a larger finite target_db returns
\* the buffer unchanged through the failure branch.
C8_SilentUnchanged ==
  (op = "normalize" /\ dtype \in SupportedDTypes /\ AllZero(buf)) =>
    IF IsFiniteDb(level) /\ level.db > MaxPowDb
    THEN res.out = buf /\ res.failed
    ELSE SilentUnchanged

C8_Witness ==
  /\ op = "normalize" /\ calls = 1 /\ dtype = "int16" /\ level = FinDb(-3)
  /\ Len(buf) = 2 /\ AllZero(buf) /\ res.out = buf /\ ~res.failed

\* the normalized [-1, 1] view of a buffer
ViewOf(b, d) == IF IsInteger(d) THEN [i \in 1..Len(b) |-> FloatView(b[i], d)] ELSE b

\* 10^(db/20) on the grid
TargetRms(g) ==
  IF Pow10Table(g.db)[1] = 0 THEN 0
  ELSE MagMulDiv(FScale - 1, Pow10Table(g.db)[1], Pow10Table(g.db)[2], TRUE)

\* the tolerance 1e-3 on the grid
Tol == FScale \div 1000

Dist(a, b) == IF a > b THEN a - b ELSE b - a

\* the call scaled the buffer (it measured current_rms > 0) and no scaled
\* sample left [-1, 1]
NoClip(r) ==
  /\ ~r.failed /\ r.raw # <<>>
  /\ \A i \in 1..Len(r.raw) :
       r.raw[i].k = "fin" /\ r.raw[i].v <= FScale /\ r.raw[i].v >= -FScale

\* the RMS measured on the [-1, 1] view of a buffer of finite samples
AllFinite(b) == \A i \in 1..Len(b) : b[i].k = "fin"
MeasuredRms(b, d) == Sqrt(SumSq(ViewOf(b, d)) \div Len(b))

RmsOnTarget ==
  /\ AllFinite(res.out)
  /\ Dist(MeasuredRms(res.out, dtype), TargetRms(level)) <= Tol

RmsKept ==
  /\ AllFinite(res.out) /\ AllFinite(buf)
  /\ Dist(MeasuredRms(res.out, dtype), MeasuredRms(buf, dtype)) < Tol

GainComputes(g) == g.k # "fin" \/ g.db <= MaxPowDb

\* C11: enhance_volume_file returns True exactly when decoding, the gain
\* application and the WAV export all completed, returns False on every
\* decode, I/O or encode failure, and no exception reaches the caller.
C11_FileReturnsSuccess ==
  op = "file" =>
    /\ ~ret.escaped
    /\ ret.ret \in {"True", "False"}
    /\ ret.ret = "True" <=> (io.decode = "ok" /\ GainComputes(level) /\ io.export = "ok")
    /\ ret.ret = "True" => Len(ret.written) = Len(buf)
    /\ ret.ret = "False" => ret.written = <<>>

C11_Witness ==
  /\ op = "file" /\ dtype = "int16" /\ level = FinDb(6)
  /\ io.decode = "ok" /\ io.export = "OSError"
  /\ ret.ret = "False" /\ ~ret.escaped

\* C12: for every decoded integer sample buffer (8, 16 or 32 bit) and every
\* gain, the samples enhance_volume_file writes equal
\* enhance_volume_data(samples, rate, gain); at 0 dB they are the decoded
\* samples themselves.
C12_FileEqualsData ==
  (op = "file" /\ ret.ret = "True") =>
    /\ ret.written = enhance_volume_data(buf, dtype, rate, level, plat).out
    /\ level = FinDb(0) => ret.written = buf

\* |a| <= |b| for two elements; a magnitude above the integers held is the
\* largest, nan is not ordered
NegAbs(v) == IF v > 0 THEN -v ELSE v
AbsLe(a, b) ==
  CASE a.k = "nan" \/ b.k = "nan" -> FALSE
    [] b.k \in {"pos", "neg"} -> TRUE
    [] a.k \in {"pos", "neg"} -> FALSE
    [] OTHER -> NegAbs(a.v) >= NegAbs(b.v)

\* the call that returned res scaled every sample, and at the lower gain g1
\* no scaled sample and no returned sample is larger in magnitude
LouderThanAt(g1) ==
  LET r1 == enhance_volume_data(buf, dtype, rate, g1, plat)
  IN /\ Len(r1.raw) = Len(buf) /\ Len(res.raw) = Len(buf)
     /\ \A i \in 1..Len(buf) :
          AbsLe(r1.raw[i], res.raw[i]) /\ AbsLe(r1.out[i], res.out[i])

C14_CallsArePure ==
  op \in {"enhance", "tts", "normalize"} => (held = buf /\ attrs = {})

C14_Witness ==
  /\ op = "normalize" /\ calls = 2 /\ dtype = "float32" /\ level = FinDb(-6)
  /\ ~res.failed /\ res.raw # <<>> /\ res.out # buf
  /\ held = buf /\ attrs = {}

\* what the call of a caller returns when no other call runs
Alone(a) ==
  IF a.method = "enhance"
  THEN enhance_volume_data(a.audio_data, a.dtype, 24000, a.level, plat)
  ELSE normalize_volume(a.audio_data, a.dtype, a.level, plat)

\* C15: calls of enhance_volume_data / normalize_volume made concurrently by
\* several callers on their own buffers through the shared volume_enhancer
\* return, under every interleaving, the buffer they return when run alone,
\* and the instance holds no state written by a call.
C15_ConcurrentCallsIndependent ==
  /\ attrs = {}
  /\ \A c \in Callers :
       thread[c].pc = "returned" => thread[c].got = Alone(thread[c].asked)

C15_Witness ==
  /\ thread[1].pc = "returned" /\ thread[1].overlap
  /\ thread[2].pc = "computed" /\ thread[2].overlap
  /\ thread[1].asked.method = "enhance" /\ thread[2].asked.method = "normalize"
  /\ thread[1].asked.audio_data # thread[2].asked.audio_data
  /\ thread[1].got.out # thread[1].asked.audio_data
  /\ thread[1].got # locals[2].result

\* C16: the result of enhance_volume_data is the same for every
\* sample_rate, so enhance_tts_audio(B, g), which passes 24000, returns what
\* enhance_volume_data(B, sr, g) returns for every sr.
C16_RateIndependent ==
  op \in {"enhance", "tts"} =>
    \A sr \in SampleRates : res = enhance_volume_data(buf, dtype, sr, level, plat)

C16_Witness ==
  /\ op = "tts" /\ dtype = "float32" /\ level = FinDb(6) /\ Len(buf) = 2
  /\ res.out # buf /\ ~res.failed
  /\ res = enhance_volume_data(buf, dtype, 44100, level, plat)

\* the largest magnitude of a buffer of finite samples
Peak(b) ==
  LET mags == {IF b[i].v < 0 THEN -b[i].v ELSE b[i].v : i \in 1..Len(b)}
  IN CHOOSE m \in mags : \A n \in mags : n <= m

\* every scaled sample is inside the range of the representation
ScaledInRange ==
  /\ ~res.failed /\ Len(res.raw) = Len(buf)
  /\ \A i \in 1..Len(buf) : InRange(res.raw[i], dtype)

\* 0.9976 on the grid
Peak6Db == (9976 * FScale) \div 10000

\* C17: when every scaled sample stays inside the representable range,
\* enhance_volume_data clips nothing; a float32 buffer of peak 0.5 at 1, 3, 6
\* or -3 dB comes back as float32 with every sample strictly inside
\* (-1.0, 1.0) and peak 0.5 x linear (0.9976 at 6 dB, within 1e-3); an int16
\* buffer of peak 16000 at -6 dB comes back with peak 8016 within 0.1 %,
\* inside the int16 range.
C17_NoClipInsideRange ==
  /\ (op = "enhance" /\ dtype \in SupportedDTypes /\ ScaledInRange) =>
       (res.pre = res.raw /\ res.out = res.raw)
  /\ (op = "enhance" /\ dtype = "float32" /\ AllFinite(buf) /\ Peak(buf) = FScale \div 2
        /\ level \in {FinDb(1), FinDb(3), FinDb(6), FinDb(-3)}) =>
       /\ ~res.failed /\ res.dtypeOut = "float32" /\ AllFinite(res.out)
       /\ \A i \in 1..Len(res.out) : res.out[i].v > -FScale /\ res.out[i].v < FScale
       /\ Dist(Peak(res.out) * Pow10Table(level.db)[2],
               (FScale \div 2) * Pow10Table(level.db)[1]) <= Pow10Table(level.db)[2]
       /\ level = FinDb(6) => Dist(Peak(res.out), Peak6Db) <= Tol
  /\ (op = "enhance" /\ dtype = "int16" /\ AllFinite(buf) /\ Peak(buf) = 16000
        /\ level = FinDb(-6)) =>
       /\ ~res.failed /\ res.dtypeOut = "int16" /\ AllFinite(res.out)
       /\ Dist(Peak(res.out), 8016) <= 8
       /\ \A i \in 1..Len(res.out) : InRange(res.out[i], "int16")

C17_Witness ==
  /\ op = "enhance" /\ dtype = "float32" /\ level = FinDb(6)
  /\ buf = <<Fin(FScale \div 2), Fin(-(FScale \div 2))>>
  /\ ScaledInRange /\ res.out = res.raw
  /\ Dist(Peak(res.out), Peak6Db) <= Tol

\* the voices a list names
Named(voices) == {voices[i] : i \in 1..Len(voices)}

\* every voice a body names: the elements of `voices` and the `voice` string
AllNamed(body) == Named(body.voices) \cup ({body.voice} \ {"absent"})

\* C18: for every TTS request to /tts/file, /tts/data or /tts/save, the
\* voice used for generation is one of the voices the request names whose
\* voice file exists; a request whose voice list is empty or that names no
\* voice with an existing file is answered with 400, before the model is
\* obtained and before the pipeline runs.
C18_VoiceFromRequest ==
  (req.endpoint \in TtsEndpoints /\ req.body.speed = "in"
     /\ (req.body.hasVoices \/ req.body.voice # "absent")) =>
    /\ (sel # "none" \/ did # {}) =>
         (sel \in AllNamed(req.body) /\ sel \in voiceFiles)
    /\ (hpc = "responded" /\ AllNamed(req.body) \cap voiceFiles = {}) =>
         (resp.status = 400 /\ did = {} /\ sel = "none")

\* the part of C18 that holds: the same for the requests that carry a
\* `voices` list, the only voices the handler looks at
C18_VoiceFromVoicesList ==
  (req.endpoint \in TtsEndpoints /\ req.body.speed = "in" /\ req.body.hasVoices) =>
    /\ (sel # "none" \/ did # {}) =>
         (sel \in Named(req.body.voices) /\ sel \in voiceFiles)
    /\ (hpc = "responded" /\ Named(req.body.voices) \cap voiceFiles = {}) =>
         (resp.status = 400 /\ did = {} /\ sel = "none")

C18_ListWitness ==
  /\ hpc = "responded" /\ req.endpoint = "/tts/data"
  /\ req.body.voices = <<"invalid_voice", "af_bella">>
  /\ voiceFiles = {"af_bella", "am_adam"}
  /\ sel = "af_bella" /\ did = {"get_model", "generate"}
  /\ resp = [status |-> 200, body |-> "audio"]

\* C19 as stated: a TTS request with a single `voice` field and no `voices`
\* list is accepted and answered 200 with audio when the voice exists
\* (unless the server itself fails, 500), and answered 400 when it does not.
C19_SingleVoiceAccepted ==
  (hpc = "responded" /\ req.endpoint \in TtsEndpoints /\ ~req.body.hasVoices
     /\ req.body.voice # "absent" /\ req.body.speed = "in") =>
    IF req.body.voice \in voiceFiles
    THEN resp.status \in {200, 500} /\ (resp.status = 200 => resp.body = "audio")
    ELSE resp.status = 400

\* C20: GET /health answers 200 only when the model is loaded: whenever
\* model initialisation failed, the answer is not 200.
C20_HealthOnlyWhenLoaded ==
  (hpc = "responded" /\ req.endpoint = "/health" /\ model = "None") =>
    resp.status # 200

\* the requested files that exist in voices/
Available == Names(FilesToDownload(dl.voice_files)) \cap disk

\* C21: when download_voice_files ends with fewer than required_count of the
\* requested files available it has raised ValueError, and a list it returns
\* holds at least required_count files.
C21_RaisesWhenTooFew ==
  dl.pc = "done" =>
    /\ (Cardinality(Available) < dl.required_count => dl.result = "ValueError")
    /\ (dl.result = "list" => Len(dl.downloaded_voices) >= dl.required_count)

\* the part of C21 that holds: a call that reaches the report at the end
\* returns a list only when it holds required_count files
C21_ReportChecksCount ==
  (dl.pc = "done" /\ ~ReturnsEarly(dl.files_to_download, dl.downloaded_voices)) =>
    /\ (Cardinality(Available) < dl.required_count => dl.result = "ValueError")
    /\ (dl.result = "list" => Len(dl.downloaded_voices) >= dl.required_count)

\* the attempts made for voice file f in the running call
Attempts(f) == tries[f]

\* every requested file is in exactly one of the two lists
EachInOneList ==
  \A f \in Names(FilesToDownload(dl.voice_files)) :
    (f \in Names(dl.downloaded_voices)) # (f \in Names(dl.failed_voices))

\* at most 3 attempts per file, none after a successful one, and a file is
\* listed as failed only after its third attempt failed
AttemptsBounded ==
  \A f \in VoiceFileNames :
    /\ Len(Attempts(f)) <= 3
    /\ \A i \in 1..Len(Attempts(f)) : Attempts(f)[i] = "ok" => i = Len(Attempts(f))
    /\ f \in Names(dl.failed_voices) =>
         Len(Attempts(f)) = 3 /\ Attempts(f)[3] # "ok"

C22_DeleteWitness == sd.op = "delete" /\ sd.ret /\ sd.name \in DOMAIN sd.before.presets

\* the presets stored under other names than the one the last call named
OtherStored == DOMAIN sd.before.presets \ {sd.name}

\* the last call was refused before it wrote: invalid name, invalid preset
\* data, or (delete) a name that is not stored as a valid preset
Refused ==
  \/ /\ sd.op = "save"
     /\ \/ sd.name.class \in {"blank", "other"} \/ sd.name.len > 50
        \/ sd.preset.voice.class # "word" \/ sd.preset.text.class = "blank"
        \/ sd.preset.format \notin {"wav", "mp3", "aac"}
        \/ sd.preset.speed < 1 \/ sd.preset.speed > 30
  \/ /\ sd.op = "delete"
     /\ \/ sd.name \notin DOMAIN sd.before.presets
        \/ ~validate_preset(sd.before.presets[sd.name]).ok

\* C28 (as stated): save_preset and delete_preset leave every other preset
\* stored in the file as it was, and a call that returns False for an invalid
\* name, invalid data or an unknown name leaves the file exactly as it was.
C28_OnlyNamedEntryChanges ==
  sd.op # "none" =>
    /\ \A n \in OtherStored :
         /\ n \in DOMAIN presets_file.presets
         /\ presets_file.presets[n] = sd.before.presets[n]
    /\ (~sd.ret /\ Refused) => presets_file = sd.before

\* C28 (amended): a call that returns True keeps every other VALID preset,
\* with the defaults for format and speed filled in, and removes every other
\* preset that validate_preset rejects; a call refused for its name, its data
\* or an unknown name leaves the file exactly as it was; a call that returns
\* False because the write raised IOError leaves the file as it was or
\* undecodable.
C28_ValidOthersKept ==
  sd.op # "none" =>
    /\ sd.ret =>
         /\ presets_file.state = "json"
         /\ \A n \in OtherStored :
              IF validate_preset(sd.before.presets[n]).ok
              THEN /\ n \in DOMAIN presets_file.presets
                   /\ presets_file.presets[n] = validate_preset(sd.before.presets[n]).preset
              ELSE n \notin DOMAIN presets_file.presets
    /\ (~sd.ret /\ Refused) => presets_file = sd.before
    /\ ~sd.ret => presets_file = sd.before \/ presets_file.state = "corrupt"

\* a save returned True and a preset stored under another name is gone
C28_Witness ==
  /\ sd.op = "save" /\ sd.ret
  /\ \E n \in OtherStored : n \notin DOMAIN presets_file.presets

\* json.load is bound to a patched function
IsPatched == json_load.fn = "custom_load"

\* C25: after any sequence of patch_json_load, restore_json_load and
\* _cleanup_monkey_patches calls, _patches_applied['json_load'] is True
\* exactly when json.load is a patched function, and a restore or cleanup
\* call that follows one or more patch calls leaves json.load the library
\* function.
C25_FlagMatchesPatch ==
  /\ patches_applied.json_load <=> IsPatched
  /\ (pcall.op \in {"restore", "cleanup"} /\ pcall.patches >= 1) =>
       json_load = LibraryLoad

\* the part of C25 that holds: the flag is True only while json.load is a
\* patched function
C25_FlagImpliesPatched == patches_applied.json_load => IsPatched

\* C23: under any interleaving of build_model calls at most one KPipeline is
\* constructed and stored in _pipeline, every call that returns yields that
\* instance, and a call made once _pipeline is set returns it without
\* initialising again, whatever model_path and device it is given.
C23_SinglePipeline ==
  /\ made.KPipeline <= 1
  /\ pipeline # None => pipeline.n = 1
  /\ \A t \in BuildThreads :
       /\ (bt[t].pc = "done" /\ "obj" \in DOMAIN bt[t].got) => bt[t].got = pipeline
       /\ (bt[t].pc # "idle" /\ bt[t].initialised) =>
            (pipeline = None \/ bt[t].pc = "done")

\* one thread built the pipeline for "cpu"; another, which asked for "cuda"
\* and another model path while the first was building, got the same one
C23_Witness ==
  \E t, u \in BuildThreads :
    /\ t # u
    /\ bt[t].pc = "done" /\ bt[t].initialised /\ bt[t].got = pipeline
    /\ bt[u].pc = "done" /\ ~bt[u].initialised /\ bt[u].got = pipeline
    /\ bt[u].device # pipeline.device /\ bt[u].model_path # bt[t].model_path

\* thread t takes the step from position p to position q
BuildStep(t, p, q) == bt[t].pc = p /\ bt'[t].pc = q

\* C24: _pipeline changes only in the step that ends a fully successful
\* initialisation; the step that handles a failure raises the exception to
\* the caller with _pipeline still None and json.load the function it was
\* when the call entered the locked block; a call that finds _pipeline None
\* starts the initialisation at patch_json_load.
C24_FailureLeavesNothing ==
  [][/\ pipeline' # pipeline =>
          \E t \in BuildThreads :
            /\ BuildStep(t, "store", "done")
            /\ bt[t].initialised
            /\ pipeline' = bt[t].pipeline_instance /\ pipeline' # None
     /\ \A t \in BuildThreads :
          /\ BuildStep(t, "except", "done") =>
               /\ "exc" \in DOMAIN bt'[t].got
               /\ pipeline' = None
               /\ json_load' = bt[t].before
               /\ pipeline_lock' = 0
          /\ (bt[t].pc = "acquire" /\ bt'[t].pc # "acquire" /\ pipeline = None) =>
               BuildStep(t, "acquire", "patch")
          /\ (bt[t].pc \in {"model", "config", "voices", "construct"}
              /\ bt'[t].pc \notin {bt[t].pc, "except"}) => pipeline' = None
    ]_vars

\* a call failed after an earlier call had failed too: the initialisation
\* ran a second time, and json.load is the library function again
C24_Witness ==
  \E t \in BuildThreads :
    /\ bt[t].pc = "done" /\ "exc" \in DOMAIN bt[t].got
    /\ made.custom_load = 2
    /\ pipeline = None /\ json_load = LibraryLoad /\ ~patches_applied.json_load

\* the write attempts made so far in the call
WriteAttempts == {i \in 1..Len(events) : events[i] \in {"ok", "fail"}}

\* at most max_retries writes, nothing after a successful one, a sleep only
\* between a failed write and the next write, True exactly after a success,
\* False only after max_retries failed writes
RetryBounded ==
  /\ Cardinality(WriteAttempts) <= rt.max_retries
  /\ \A i \in 1..Len(events) :
       /\ events[i] = "ok" => i = Len(events) /\ rt.pc = "done" /\ rt.ret = "True"
       /\ events[i] = "sleep" => i > 1 /\ events[i - 1] = "fail"
       /\ (events[i] = "sleep" /\ i = Len(events)) => rt.pc = "write"
       /\ (events[i] = "fail" /\ i < Len(events)) => events[i + 1] = "sleep"
  /\ rt.ret = "True" => events # <<>> /\ events[Len(events)] = "ok"
  /\ rt.ret = "False" =>
       /\ Cardinality(WriteAttempts) = rt.max_retries
       /\ \A i \in WriteAttempts : events[i] = "fail"

\* C29: save_audio_with_retry always terminates, after at most max_retries
\* write attempts; it returns True at the first successful attempt, False
\* only after max_retries failed attempts, and sleeps between two attempts
\* but not after the last one.
C29_TerminatesWithinRetries ==
  /\ []RetryBounded
  /\ (rt.pc \in {"write", "sleep"}) ~> (rt.pc = "done")

\* three attempts failed, with a sleep after the first and the second only
C29_Witness ==
  /\ rt.pc = "done" /\ rt.ret = "False" /\ rt.max_retries = 3
  /\ events = <<"fail", "sleep", "fail", "sleep", "fail">>

\* request r takes the step from position p to position q of get_model
GmStep(r, p, q) == co[r].pc = p /\ co'[r].pc = q

SameSignOrZero(x, y) ==
  /\ y.k = "fin"
  /\ y.v = 0 \/ (x.v > 0 /\ y.v > 0) \/ (x.v < 0 /\ y.v < 0)

C30_ShrinkWitness ==
  /\ op = "enhance" /\ dtype = "float32" /\ level = FinDb(-6)
  /\ \E i \in 1..Len(buf) :
       buf[i] = Fin(-FScale) /\ res.out[i].v < 0 /\ res.out[i].v > -FScale

====
